---- MODULE Spec2Model ----
(***************************************************************************)
(* Collision mesh (map_loader.rs) and grenade trajectory preview          *)
(* (grenade_trajectory.rs) of the overlay controller.                     *)
(*                                                                         *)
(* Numbers.  The program computes in f32.  The model computes in exact    *)
(* integer arithmetic on a lattice:                                       *)
(*   - triangle vertices are integer world units;                         *)
(*   - positions (ray end points, path points) are integers in units of   *)
(*     1/PosScale world unit;                                              *)
(*   - velocities are integers in units of 1/VelScale world unit/second;  *)
(*   - throw strengths are integers in units of 1/100;                    *)
(*   - distances along a ray are rationals <<n, d>>, d > 0.               *)
(* IEEE special values that the slab test can produce (division by a zero *)
(* direction component, 0 * inf) are modelled explicitly.  Rounding of    *)
(* finite f32 results is not modelled.                                    *)
(***************************************************************************)
EXTENDS Integers, Sequences, FiniteSets, TLC

\* ------------------------------------------------------------------------
\* Bounds of the model
\* ------------------------------------------------------------------------
\* Largest number of mesh primitives one map file holds.
MaxPrimitives == 3

\* ------------------------------------------------------------------------
\* Fixed-point representation
\* ------------------------------------------------------------------------
TicksPerSecond == 64
VelScale == 10
PosScale == VelScale * TicksPerSecond
F32_MAX == 1000000

None == [none |-> TRUE]
Some(x) == [some |-> x]
IsSome(o) == "some" \in DOMAIN o

\* `let x = v; Body(x)`.  Operator arguments and LET definitions are evaluated
\* on demand, at every use; Bind evaluates v once and runs Body on the value,
\* as a statement sequence does.  The loops of the program, written as
\* recursive operators, bind their accumulator in each iteration.
Bind(v, Body(_)) == CHOOSE r \in {Body(x) : x \in {v}} : TRUE

Abs(x) == IF x < 0 THEN -x ELSE x
Sign(x) == IF x < 0 THEN -1 ELSE IF x > 0 THEN 1 ELSE 0
Min2(a, b) == IF a < b THEN a ELSE b
Max2(a, b) == IF a > b THEN a ELSE b
\* Integer division rounding toward zero, as an f32 -> fixed-point cut.
Quot(a, b) == Sign(a) * Sign(b) * (Abs(a) \div Abs(b))

RECURSIVE Gcd(_, _)
Gcd(a, b) == IF b = 0 THEN a ELSE Gcd(b, a % b)

\* Largest r in lo..hi with r * r <= n (lo * lo <= n), by bisection.
RECURSIVE IsqrtIn(_, _, _)
IsqrtIn(n, lo, hi) ==
    IF lo >= hi THEN lo
    ELSE LET mid == (lo + hi + 1) \div 2
         IN IF mid * mid <= n THEN IsqrtIn(n, mid, hi) ELSE IsqrtIn(n, lo, mid - 1)
Isqrt(n) == IsqrtIn(n, 0, Min2(n, 46340))

\* ------------------------------------------------------------------------
\* nalgebra::Vector3
\* ------------------------------------------------------------------------
VAdd(a, b) == <<a[1] + b[1], a[2] + b[2], a[3] + b[3]>>
VSub(a, b) == <<a[1] - b[1], a[2] - b[2], a[3] - b[3]>>
VScale(a, k) == <<a[1] * k, a[2] * k, a[3] * k>>
VNeg(a) == <<-a[1], -a[2], -a[3]>>
Dot(a, b) == a[1] * b[1] + a[2] * b[2] + a[3] * b[3]
Cross(a, b) == <<a[2] * b[3] - a[3] * b[2],
                 a[3] * b[1] - a[1] * b[3],
                 a[1] * b[2] - a[2] * b[1]>>
Zero3 == <<0, 0, 0>>

\* Vector3::normalize(): the unit vector in units of 1/NormalScale, cut
\* toward zero (exact for a vector along one axis).  A zero vector has no
\* direction: the program gets NaN components, for which every comparison is
\* false; the model keeps the zero vector, for which `dot > 0` is false too.
NormalScale == 1000
Normalize(v) ==
    IF v = Zero3 THEN Zero3
    ELSE LET n == Isqrt(Dot(v, v))
         IN <<Quot(v[1] * NormalScale, n), Quot(v[2] * NormalScale, n),
              Quot(v[3] * NormalScale, n)>>

\* ------------------------------------------------------------------------
\* Triangle (map_loader.rs:7-13) as load() builds it (map_loader.rs:235-240).
\* center holds v0 + v1 + v2, three times the centroid: the builder only
\* compares centers with each other.
\* ------------------------------------------------------------------------
Triangle(v0, v1, v2) ==
    [v0 |-> v0, v1 |-> v1, v2 |-> v2,
     normal |-> Normalize(Cross(VSub(v1, v0), VSub(v2, v0))),
     center |-> VAdd(VAdd(v0, v1), v2)]

\* ------------------------------------------------------------------------
\* AABB
\* ------------------------------------------------------------------------
AABBNew_AtOrigin == [min |-> <<0, 0, 0>>, max |-> <<0, 0, 0>>]
AABBNew == [min |-> <<F32_MAX, F32_MAX, F32_MAX>>,
            max |-> <<-F32_MAX, -F32_MAX, -F32_MAX>>]

AABBExpand(b, p) ==
    [min |-> <<Min2(b.min[1], p[1]), Min2(b.min[2], p[2]), Min2(b.min[3], p[3])>>,
     max |-> <<Max2(b.max[1], p[1]), Max2(b.max[2], p[2]), Max2(b.max[3], p[3])>>]

\* ------------------------------------------------------------------------
\* MapMesh::build_linear_bvh
\* ------------------------------------------------------------------------
LeafSize == 8

\* The loop of recursive_build that bounds the triangles of `indices`,
\* from position i on.
ExpandTriangle_SkipsV2(aabb, t) ==
    AABBExpand(AABBExpand(aabb, t.v0), t.v1)
ExpandTriangle(aabb, t) ==
    AABBExpand(AABBExpand(AABBExpand(aabb, t.v0), t.v1), t.v2)

RECURSIVE ExpandAll(_, _, _, _)
ExpandAll(triangles, indices, i, aabb) ==
    IF i > Len(indices) THEN aabb
    ELSE Bind(ExpandTriangle(aabb, triangles[indices[i]]),
              LAMBDA expanded : ExpandAll(triangles, indices, i + 1, expanded))

\* slice::select_nth_unstable_by leaves some permutation of the slice in
\* which every element before position nth compares <= the one at nth and
\* every element after compares >=.  Which permutation is not specified.
\* The model takes the slice sorted by the key, elements of equal key kept in
\* slice order (policy "asc") or in reverse slice order (policy "desc"):
\* the two extreme ways of distributing equal keys over the two halves.
Before(keys, policy, i, j) ==
    \/ keys[i] < keys[j]
    \/ keys[i] = keys[j] /\ (IF policy = "asc" THEN i < j ELSE i > j)

\* The position in the sorted slice of the element at position i.
Rank(keys, policy, i) ==
    1 + Cardinality({j \in DOMAIN keys : Before(keys, policy, j, i)})

SelectNthUnstableBy(triangles, indices, axis, policy) ==
    LET keys == [i \in 1..Len(indices) |-> triangles[indices[i]].center[axis]]
        rank == [i \in 1..Len(indices) |-> Rank(keys, policy, i)]
    IN [r \in 1..Len(indices) |->
           indices[CHOOSE i \in 1..Len(indices) : rank[i] = r]]

SplitAxis(aabb) ==
    LET extent == VSub(aabb.max, aabb.min)
    IN IF extent[1] > extent[2] /\ extent[1] > extent[3] THEN 1
       ELSE IF extent[2] > extent[3] THEN 2
       ELSE 3

\* indices.split_at_mut(mid_idx): the two halves of the selected slice.
LeftIndices(sel, mid_idx) == SubSeq(sel, 1, mid_idx)

RightIndices_SkipsMedian(sel, mid_idx) == SubSeq(sel, mid_idx + 2, Len(sel))
RightIndices(sel, mid_idx) == SubSeq(sel, mid_idx + 1, Len(sel))

\* recursive_build: a BuildNode is [aabb, left, right, triangle_indices];
\* left and right are None in a leaf.  Indices are 1-based positions in the
\* input triangle list.
RECURSIVE RecursiveBuild(_, _, _)
RecursiveBuild_SplitsAtThird(triangles, indices, policy) ==
    LET aabb == ExpandAll(triangles, indices, 1, AABBNew)
    IN IF Len(indices) <= LeafSize
       THEN [aabb |-> aabb, left |-> None, right |-> None,
             triangle_indices |-> indices]
       ELSE LET axis == SplitAxis(aabb)
                mid_idx == Len(indices) \div 3
                sel == SelectNthUnstableBy(triangles, indices, axis, policy)
                left_indices == LeftIndices(sel, mid_idx)
                right_indices == RightIndices(sel, mid_idx)
            IN [aabb |-> aabb,
                left |-> Some(RecursiveBuild(triangles, left_indices, policy)),
                right |-> Some(RecursiveBuild(triangles, right_indices, policy)),
                triangle_indices |-> <<>>]
RecursiveBuild(triangles, indices, policy) ==
    LET aabb == ExpandAll(triangles, indices, 1, AABBNew)
    IN IF Len(indices) <= LeafSize
       THEN [aabb |-> aabb, left |-> None, right |-> None,
             triangle_indices |-> indices]
       ELSE LET axis == SplitAxis(aabb)
                mid_idx == Len(indices) \div 2
                sel == SelectNthUnstableBy(triangles, indices, axis, policy)
                left_indices == LeftIndices(sel, mid_idx)
                right_indices == RightIndices(sel, mid_idx)
            IN [aabb |-> aabb,
                left |-> Some(RecursiveBuild(triangles, left_indices, policy)),
                right |-> Some(RecursiveBuild(triangles, right_indices, policy)),
                triangle_indices |-> <<>>]

\* LinearNode (map_loader.rs:81-88).  Node indices and triangle offsets are
\* 0-based as in the program; nodes[i + 1] is the node of index i.
LinearNode(aabb, offset, count) == [aabb |-> aabb, offset |-> offset, count |-> count]

\* flatten: returns the grown node and triangle arrays and the index of the
\* node written for `node`.  count is cut to u16 as in the program; offset
\* (u32) is not cut, no list of the model being that long.
RECURSIVE Flatten(_, _, _, _)
Flatten_OffsetIsLeft(node, nodes, ordered_tris, original_tris) ==
    LET node_idx == Len(nodes)
        pushed == Append(nodes, LinearNode(node.aabb, 0, 0))
    IN IF IsSome(node.left) /\ IsSome(node.right)
       THEN LET l == Flatten(node.left.some, pushed, ordered_tris, original_tris)
                r == Flatten(node.right.some, l.nodes, l.ordered_tris, original_tris)
            IN [nodes |-> [r.nodes EXCEPT ![node_idx + 1] =
                               LinearNode(node.aabb, l.node_idx, 0)],
                ordered_tris |-> r.ordered_tris,
                node_idx |-> node_idx]
       ELSE LET offset == Len(ordered_tris)
                count == Len(node.triangle_indices) % 65536
            IN [nodes |-> [pushed EXCEPT ![node_idx + 1] =
                               LinearNode(node.aabb, offset, count)],
                ordered_tris |-> ordered_tris \o
                    [i \in 1..Len(node.triangle_indices) |->
                        original_tris[node.triangle_indices[i]]],
                node_idx |-> node_idx]
Flatten_CountDropsOne(node, nodes, ordered_tris, original_tris) ==
    LET node_idx == Len(nodes)
        pushed == Append(nodes, LinearNode(node.aabb, 0, 0))
    IN IF IsSome(node.left) /\ IsSome(node.right)
       THEN LET l == Flatten(node.left.some, pushed, ordered_tris, original_tris)
                r == Flatten(node.right.some, l.nodes, l.ordered_tris, original_tris)
            IN [nodes |-> [r.nodes EXCEPT ![node_idx + 1] =
                               LinearNode(node.aabb, r.node_idx, 0)],
                ordered_tris |-> r.ordered_tris,
                node_idx |-> node_idx]
       ELSE LET offset == Len(ordered_tris)
                count == (Len(node.triangle_indices) - 1) % 65536
            IN [nodes |-> [pushed EXCEPT ![node_idx + 1] =
                               LinearNode(node.aabb, offset, count)],
                ordered_tris |-> ordered_tris \o
                    [i \in 1..Len(node.triangle_indices) |->
                        original_tris[node.triangle_indices[i]]],
                node_idx |-> node_idx]
Flatten(node, nodes, ordered_tris, original_tris) ==
    LET node_idx == Len(nodes)
        pushed == Append(nodes, LinearNode(node.aabb, 0, 0))
    IN IF IsSome(node.left) /\ IsSome(node.right)
       THEN LET l == Flatten(node.left.some, pushed, ordered_tris, original_tris)
                r == Flatten(node.right.some, l.nodes, l.ordered_tris, original_tris)
            IN [nodes |-> [r.nodes EXCEPT ![node_idx + 1] =
                               LinearNode(node.aabb, r.node_idx, 0)],
                ordered_tris |-> r.ordered_tris,
                node_idx |-> node_idx]
       ELSE LET offset == Len(ordered_tris)
                count == Len(node.triangle_indices) % 65536
            IN [nodes |-> [pushed EXCEPT ![node_idx + 1] =
                               LinearNode(node.aabb, offset, count)],
                ordered_tris |-> ordered_tris \o
                    [i \in 1..Len(node.triangle_indices) |->
                        original_tris[node.triangle_indices[i]]],
                node_idx |-> node_idx]

\* A MapMesh is [triangles, nodes].
BuildLinearBvh(triangles, policy) ==
    LET indices == [i \in 1..Len(triangles) |-> i]
        root == RecursiveBuild(triangles, indices, policy)
        flat == Flatten(root, <<>>, <<>>, triangles)
    IN [triangles |-> flat.ordered_tris, nodes |-> flat.nodes]

\* ------------------------------------------------------------------------
\* Distances along a ray: rationals <<n, d>> with d > 0, in lowest terms.
\* ------------------------------------------------------------------------
Rat(n, d) ==
    LET g == Gcd(Abs(n), Abs(d))
    IN IF n = 0 THEN <<0, 1>> ELSE <<Sign(d) * (n \div g), Abs(d) \div g>>
RLt(a, b) == a[1] * b[2] < b[1] * a[2]
RLe(a, b) == a[1] * b[2] <= b[1] * a[2]

\* f32 values of the slab test: a finite number, +inf, -inf or NaN.
Fin(r) == [k |-> "fin", r |-> r]
PInf == [k |-> "inf", s |-> 1]
NInf == [k |-> "inf", s |-> -1]
NaN == [k |-> "nan"]

\* a * (1.0 / c) for a finite a and a direction component c: 1.0 / 0.0 is
\* +inf, and a * inf is +inf, -inf or (a = 0) NaN.
MulInv(a, c) ==
    IF c # 0 THEN Fin(Rat(a, c))
    ELSE IF a > 0 THEN PInf ELSE IF a < 0 THEN NInf ELSE NaN

\* x < y and x <= y on f32: false when either side is NaN.
FLt(x, y) ==
    /\ x.k # "nan" /\ y.k # "nan"
    /\ IF x.k = "inf" THEN x.s = -1 /\ ~(y.k = "inf" /\ y.s = -1)
       ELSE IF y.k = "inf" THEN y.s = 1
       ELSE RLt(x.r, y.r)
FLe(x, y) ==
    /\ x.k # "nan" /\ y.k # "nan"
    /\ (x = y \/ FLt(x, y))

\* f32::min and f32::max: when one argument is NaN the other is returned.
FMin(x, y) == IF x.k = "nan" THEN y ELSE IF y.k = "nan" THEN x
              ELSE IF FLt(y, x) THEN y ELSE x
FMax(x, y) == IF x.k = "nan" THEN y ELSE IF y.k = "nan" THEN x
              ELSE IF FLt(x, y) THEN y ELSE x

\* AABB::intersect, the slab test.  The box is in world units, ray_origin in
\* position units; dir_norm stands for the ray direction whose reciprocal the
\* program passes as ray_inv_dir; t_max is a rational.
AABBIntersect(aabb, ray_origin, dir_norm, t_max) ==
    LET tx1 == MulInv(aabb.min[1] * PosScale - ray_origin[1], dir_norm[1])
        tx2 == MulInv(aabb.max[1] * PosScale - ray_origin[1], dir_norm[1])
        tmin0 == FMin(tx1, tx2)
        tmax0 == FMax(tx1, tx2)
        ty1 == MulInv(aabb.min[2] * PosScale - ray_origin[2], dir_norm[2])
        ty2 == MulInv(aabb.max[2] * PosScale - ray_origin[2], dir_norm[2])
        tmin1 == FMax(tmin0, FMin(ty1, ty2))
        tmax1 == FMin(tmax0, FMax(ty1, ty2))
        tz1 == MulInv(aabb.min[3] * PosScale - ray_origin[3], dir_norm[3])
        tz2 == MulInv(aabb.max[3] * PosScale - ray_origin[3], dir_norm[3])
        tmin == FMax(tmin1, FMin(tz1, tz2))
        tmax == FMin(tmax1, FMax(tz1, tz2))
    IN FLe(tmin, tmax) /\ FLe(Fin(<<0, 1>>), tmax) /\ FLe(tmin, Fin(t_max))

\* ------------------------------------------------------------------------
\* MapMesh::check_collision_ray
\* ------------------------------------------------------------------------
StackSize == 64

\* dir / len.  The program divides by the Euclidean length; the model divides
\* by the gcd of the components, so that dir_norm stays an integer vector,
\* and measures every distance along the ray in units of |dir_norm|.
RayLen(dir) == Gcd(Gcd(Abs(dir[1]), Abs(dir[2])), Abs(dir[3]))
DirNorm(dir) ==
    LET len == RayLen(dir)
    IN <<dir[1] \div len, dir[2] \div len, dir[3] \div len>>

\* One triangle of a leaf: the state [closest_dist, closest_hit] after the
\* Moeller-Trumbore test of `tri`.  |a| < EPSILON and t > EPSILON are a = 0
\* and t > 0 on the lattice.
TestTriangle_TwoSided(tri, start, dir_norm, len, st) ==
    LET edge1 == VSub(tri.v1, tri.v0)
        edge2 == VSub(tri.v2, tri.v0)
        h == Cross(dir_norm, edge2)
        a == Dot(edge1, h)
        s == VSub(start, VScale(tri.v0, PosScale))
        u == Rat(Dot(s, h), a * PosScale)
        q == Cross(s, edge1)
        v == Rat(Dot(dir_norm, q), a * PosScale)
        t == Rat(Dot(edge2, q), a)
    IN IF a = 0 THEN st
       ELSE IF u[1] < 0 \/ u[1] > u[2] THEN st
       ELSE IF v[1] < 0 \/ RLt(<<1, 1>>, <<u[1] * v[2] + v[1] * u[2], u[2] * v[2]>>) THEN st
       ELSE IF t[1] > 0 /\ RLt(t, st.closest_dist)
            THEN [closest_dist |-> t,
                  closest_hit |-> Some(
                     [fraction |-> Rat(t[1], t[2] * len),
                      hit_pos |-> <<start[1] + Quot(dir_norm[1] * t[1], t[2]),
                                    start[2] + Quot(dir_norm[2] * t[1], t[2]),
                                    start[3] + Quot(dir_norm[3] * t[1], t[2])>>,
                      normal |-> tri.normal])]
       ELSE st
TestTriangle(tri, start, dir_norm, len, st) ==
    IF Dot(dir_norm, tri.normal) > 0 THEN st
    ELSE
    LET edge1 == VSub(tri.v1, tri.v0)
        edge2 == VSub(tri.v2, tri.v0)
        h == Cross(dir_norm, edge2)
        a == Dot(edge1, h)
        s == VSub(start, VScale(tri.v0, PosScale))
        u == Rat(Dot(s, h), a * PosScale)
        q == Cross(s, edge1)
        v == Rat(Dot(dir_norm, q), a * PosScale)
        t == Rat(Dot(edge2, q), a)
    IN IF a = 0 THEN st
       ELSE IF u[1] < 0 \/ u[1] > u[2] THEN st
       ELSE IF v[1] < 0 \/ RLt(<<1, 1>>, <<u[1] * v[2] + v[1] * u[2], u[2] * v[2]>>) THEN st
       ELSE IF t[1] > 0 /\ RLt(t, st.closest_dist)
            THEN [closest_dist |-> t,
                  closest_hit |-> Some(
                     [fraction |-> Rat(t[1], t[2] * len),
                      hit_pos |-> <<start[1] + Quot(dir_norm[1] * t[1], t[2]),
                                    start[2] + Quot(dir_norm[2] * t[1], t[2]),
                                    start[3] + Quot(dir_norm[3] * t[1], t[2])>>,
                      normal |-> tri.normal])]
       ELSE st

RECURSIVE TestLeaf(_, _, _, _, _, _, _)
TestLeaf(triangles, i, end_idx, start, dir_norm, len, st) ==
    IF i >= end_idx THEN st
    ELSE Bind(TestTriangle(triangles[i + 1], start, dir_norm, len, st),
              LAMBDA tested : TestLeaf(triangles, i + 1, end_idx, start, dir_norm, len,
                                       tested))

\* `if stack_ptr < 63`: the guard of the two pushes.
HasRoom_OnlyAtRoot(stack_ptr) == stack_ptr < 1
HasRoom(stack_ptr) == stack_ptr < StackSize - 1

\* The two pushes of a branch: stack[stack_ptr] = node.offset, then
\* stack[stack_ptr + 1] = node_idx + 1.  `popped` holds the live slots.
PushChildren_LeftFirst(popped, node, node_idx) == popped \o <<node_idx + 1, node.offset>>
PushChildren(popped, node, node_idx) == popped \o <<node.offset, node_idx + 1>>

\* The traversal loop.  stack holds the live slots stack[0..stack_ptr-1].
RECURSIVE Traverse(_, _, _, _, _, _)
Traverse(mesh, stack, start, dir_norm, len, st) ==
    IF Len(stack) = 0 THEN st.closest_hit
    ELSE
    LET stack_ptr == Len(stack) - 1
        node_idx == stack[Len(stack)]
        popped == SubSeq(stack, 1, stack_ptr)
        node == mesh.nodes[node_idx + 1]
    IN IF ~AABBIntersect(node.aabb, start, dir_norm, st.closest_dist)
       THEN Traverse(mesh, popped, start, dir_norm, len, st)
       ELSE IF node.count > 0
       THEN Bind(TestLeaf(mesh.triangles, node.offset, node.offset + node.count,
                          start, dir_norm, len, st),
                 LAMBDA tested : Traverse(mesh, popped, start, dir_norm, len, tested))
       ELSE IF HasRoom(stack_ptr)
       THEN Traverse(mesh, PushChildren(popped, node, node_idx),
                     start, dir_norm, len, st)
       ELSE Traverse(mesh, popped, start, dir_norm, len, st)

CheckCollisionRay(mesh, start, end) ==
    LET dir == VSub(end, start)
        len == RayLen(dir)
        dir_norm == DirNorm(dir)
    IN IF dir = Zero3 THEN None
       ELSE IF Len(mesh.nodes) = 0 THEN None
       ELSE Traverse(mesh, <<0>>, start, dir_norm, len,
                     [closest_dist |-> <<len, 1>>, closest_hit |-> None])

\* ------------------------------------------------------------------------
\* MapMesh::check_collision: five parallel rays, the centre and four offset by
\* `radius` (position units) along an orthogonal basis of the direction.
\* ------------------------------------------------------------------------
\* up_ref: dir_norm.z.abs() < 0.99, on the unnormalised lattice direction.
UpRef(dir_norm) ==
    IF 10000 * dir_norm[3] * dir_norm[3] < 9801 * Dot(dir_norm, dir_norm)
    THEN <<0, 0, 1>> ELSE <<1, 0, 0>>

\* v * radius for a vector v in units of 1/NormalScale.
Offset(v, radius) ==
    <<Quot(v[1] * radius, NormalScale), Quot(v[2] * radius, NormalScale),
      Quot(v[3] * radius, NormalScale)>>

Offsets(dir_norm, radius) ==
    LET right == Normalize(Cross(dir_norm, UpRef(dir_norm)))
        up == Normalize(Cross(right, dir_norm))
    IN <<Zero3, Offset(right, radius), Offset(VNeg(right), radius),
         Offset(up, radius), Offset(VNeg(up), radius)>>

\* One turn of `for offset in offsets`; st is [min_fraction, closest_hit].
TakeHit(start, end, hit, st) ==
    LET dir == VSub(end, start)
    IN IF IsSome(hit) /\ RLt(hit.some.fraction, st.min_fraction)
       THEN LET frac == hit.some.fraction
            IN [min_fraction |-> frac,
                closest_hit |-> Some(
                    [fraction |-> frac,
                     hit_pos |-> <<start[1] + Quot(dir[1] * frac[1], frac[2]),
                                   start[2] + Quot(dir[2] * frac[1], frac[2]),
                                   start[3] + Quot(dir[3] * frac[1], frac[2])>>,
                     normal |-> hit.some.normal])]
       ELSE st

TryOffset(mesh, start, end, offset, st) ==
    Bind(CheckCollisionRay(mesh, VAdd(start, offset), VAdd(end, offset)),
         LAMBDA hit : TakeHit(start, end, hit, st))

RECURSIVE TryOffsets(_, _, _, _, _, _)
TryOffsets(mesh, start, end, offsets, i, st) ==
    IF i > Len(offsets) THEN st.closest_hit
    ELSE Bind(TryOffset(mesh, start, end, offsets[i], st),
              LAMBDA tried : TryOffsets(mesh, start, end, offsets, i + 1, tried))

CheckCollision_ShortcutMisses(mesh, start, end, radius) ==
    IF radius <= 0 THEN None
    ELSE IF VSub(end, start) = Zero3 THEN None
    ELSE Bind(Offsets(DirNorm(VSub(end, start)), radius),
              LAMBDA offsets : TryOffsets(mesh, start, end, offsets, 1,
                                          [min_fraction |-> <<1, 1>>, closest_hit |-> None]))
CheckCollision(mesh, start, end, radius) ==
    IF radius <= 0 THEN CheckCollisionRay(mesh, start, end)
    ELSE IF VSub(end, start) = Zero3 THEN None
    ELSE Bind(Offsets(DirNorm(VSub(end, start)), radius),
              LAMBDA offsets : TryOffsets(mesh, start, end, offsets, 1,
                                          [min_fraction |-> <<1, 1>>, closest_hit |-> None]))

\* ------------------------------------------------------------------------
\* GrenadeTrajectory: the simulation of one throw
\* ------------------------------------------------------------------------
\* ActiveGrenadeType::get_detonation_time, in tenths of a second.
GetDetonationTime(active_type) ==
    CASE active_type = "HE" -> Some(11)
      [] active_type = "Flash" -> Some(11)
      [] active_type = "Molotov" -> Some(35)
      [] OTHER -> None

\* trace_ray: the grenade is a sphere of radius 2.0.
GrenadeRadius == 2 * PosScale
TraceResult(hit, end) ==
    IF IsSome(hit)
    THEN [fraction |-> hit.some.fraction, did_hit |-> TRUE,
          plane_normal |-> hit.some.normal, end_pos |-> hit.some.hit_pos]
    ELSE [fraction |-> <<1, 1>>, did_hit |-> FALSE,
          plane_normal |-> Zero3, end_pos |-> end]
TraceRay(map_mesh, start, end) ==
    IF IsSome(map_mesh)
    THEN Bind(CheckCollision(map_mesh.some, start, end, GrenadeRadius),
              LAMBDA hit : TraceResult(hit, end))
    ELSE TraceResult(None, end)

SV_GRAVITY == 800
ELASTICITY == 45
FRICTION == 40
MaxSteps == 130
FallLimit == 1000

\* The bounce: the velocity after a hit on a surface with `normal`.
Bounce(velocity, normal) ==
    LET normal_velocity == Quot(Dot(velocity, normal), NormalScale)
        velocity_normal == Offset(normal, normal_velocity)
        velocity_tangent == VSub(velocity, velocity_normal)
    IN <<Quot(velocity_normal[1] * (-ELASTICITY), 100) + Quot(velocity_tangent[1] * FRICTION, 100),
         Quot(velocity_normal[2] * (-ELASTICITY), 100) + Quot(velocity_tangent[2] * FRICTION, 100),
         Quot(velocity_normal[3] * (-ELASTICITY), 100) + Quot(velocity_tangent[3] * FRICTION, 100)>>

\* position.z < floor_z - 1000.0
Below_Never(position, floor_z) == FALSE
Below(position, floor_z) == position[3] < floor_z - FallLimit * PosScale

\* The loop body after trace_ray.  st is the loop state with this iteration's
\* first point pushed and the time advanced; velocity has gravity applied.
AfterTrace_MolotovBounces(active_type, floor_z, st, velocity, next_position, trace) ==
    IF trace.did_hit
    THEN Bind(Bounce(velocity, trace.plane_normal),
              LAMBDA bounced :
                Bind(VAdd(trace.end_pos, Offset(trace.plane_normal, PosScale \div 10)),
                     LAMBDA pushed_out :
                       [st EXCEPT !.path = Append(st.path, trace.end_pos),
                                  !.position = pushed_out, !.velocity = bounced,
                                  !.done = \/ Dot(bounced, bounced) < 100 * VelScale * VelScale
                                           \/ Below(pushed_out, floor_z)]))
    ELSE [st EXCEPT !.position = next_position, !.velocity = velocity,
                    !.done = Below(next_position, floor_z)]
AfterTrace(active_type, floor_z, st, velocity, next_position, trace) ==
    IF trace.did_hit
    THEN IF active_type = "Molotov" /\ trace.plane_normal[3] * 10 > 7 * NormalScale
         THEN [st EXCEPT !.path = Append(st.path, trace.end_pos),
                         !.position = trace.end_pos, !.velocity = velocity,
                         !.done = TRUE]
         ELSE Bind(Bounce(velocity, trace.plane_normal),
                   LAMBDA bounced :
                     Bind(VAdd(trace.end_pos, Offset(trace.plane_normal, PosScale \div 10)),
                          LAMBDA pushed_out :
                            [st EXCEPT !.path = Append(st.path, trace.end_pos),
                                       !.position = pushed_out, !.velocity = bounced,
                                       !.done = \/ Dot(bounced, bounced) < 100 * VelScale * VelScale
                                                \/ Below(pushed_out, floor_z)]))
    ELSE [st EXCEPT !.position = next_position, !.velocity = velocity,
                    !.done = Below(next_position, floor_z)]

\* One iteration of `for _step in 0..130`.  st is [path, position, velocity,
\* accumulated_time (in ticks), steps (iterations run), done (the loop broke)].
Step(map_mesh, active_type, floor_z, st) ==
    LET detonation_time == GetDetonationTime(active_type)
        velocity == <<st.velocity[1], st.velocity[2],
                      st.velocity[3] - (SV_GRAVITY * VelScale) \div TicksPerSecond>>
        next_position == VAdd(st.position, velocity)
        ran == [st EXCEPT !.path = Append(st.path, st.position),
                          !.accumulated_time = st.accumulated_time + 1,
                          !.steps = st.steps + 1]
    IN IF IsSome(detonation_time)
          /\ (st.accumulated_time + 1) * 10 >= detonation_time.some * TicksPerSecond
       THEN [ran EXCEPT !.done = TRUE]
       ELSE Bind(TraceRay(map_mesh, st.position, next_position),
                 LAMBDA trace : AfterTrace(active_type, floor_z, ran, velocity,
                                           next_position, trace))

\* `n` more iterations of the loop, or fewer when it breaks.
RECURSIVE RunSteps(_, _, _, _, _)
RunSteps(map_mesh, active_type, floor_z, st, n) ==
    IF st.done \/ n = 0 THEN st
    ELSE IF n = 1 THEN Step(map_mesh, active_type, floor_z, st)
    ELSE Bind(RunSteps(map_mesh, active_type, floor_z, st, n \div 2),
              LAMBDA half : RunSteps(map_mesh, active_type, floor_z, half, n - n \div 2))

Simulate(map_mesh, active_type, floor_z, position, velocity) ==
    Bind([path |-> <<>>, position |-> position, velocity |-> velocity,
          accumulated_time |-> 0, steps |-> 0, done |-> FALSE],
         LAMBDA st : RunSteps(map_mesh, active_type, floor_z, st, MaxSteps))

\* ========================================================================
\* MapMesh::patch_glb_json: the GLB container as a sequence of bytes
\* ========================================================================
\* The character codes of the JSON texts used here.
Ascii(c) ==
    CASE c = " " -> 32 [] c = "\"" -> 34 [] c = "," -> 44 [] c = ":" -> 58
      [] c = "[" -> 91 [] c = "]" -> 93 [] c = "{" -> 123 [] c = "}" -> 125
      [] c = "a" -> 97 [] c = "c" -> 99 [] c = "d" -> 100 [] c = "e" -> 101
      [] c = "n" -> 110 [] c = "o" -> 111 [] c = "s" -> 115 [] c = "t" -> 116
Text(chars) == [i \in 1..Len(chars) |-> Ascii(chars[i])]

GLB_MAGIC == 1179937895
JSON_CHUNK == 1313821514

\* write_u32::<LittleEndian> of the low 32 bits of n (two's complement for a
\* negative n, as the cast `as u32` of an i64 gives).
WriteU32(n) ==
    <<n % 256, (n \div 256) % 256, (n \div 65536) % 256, (n \div 16777216) % 256>>

\* cursor.read_u32::<LittleEndian>() at 0-based position pos: Err (None) when
\* fewer than four bytes are left.  The files of the model hold no byte above
\* 127, so the value stays below 2^31.
ReadU32(bytes, pos) ==
    IF pos + 4 > Len(bytes) THEN None
    ELSE Some(bytes[pos + 1] + 256 * bytes[pos + 2] + 65536 * bytes[pos + 3]
              + 16777216 * bytes[pos + 4])

\* bytes[from..to] with 0-based, end-exclusive bounds inside the buffer.
Slice(bytes, from, to) == SubSeq(bytes, from + 1, to)

\* ---- serde_json::Value, restricted to objects, arrays and strings ----
\* An object holds its members sorted by key, as serde_json's Map does.
Obj(members) == [t |-> "obj", members |-> members]
Arr(items) == [t |-> "arr", items |-> items]
Str(s) == [t |-> "str", s |-> s]
Member(k, v) == [k |-> k, v |-> v]

\* Byte strings in lexicographic order.
RECURSIVE LexLess(_, _)
LexLess(a, b) ==
    IF Len(b) = 0 THEN FALSE
    ELSE IF Len(a) = 0 THEN TRUE
    ELSE IF a[1] # b[1] THEN a[1] < b[1]
    ELSE LexLess(Tail(a), Tail(b))

\* Map::insert
MapInsert(members, k, v) ==
    IF \E i \in 1..Len(members) : members[i].k = k
    THEN [i \in 1..Len(members) |->
             IF members[i].k = k THEN Member(k, v) ELSE members[i]]
    ELSE LET before == Cardinality({i \in 1..Len(members) : LexLess(members[i].k, k)})
         IN SubSeq(members, 1, before) \o <<Member(k, v)>>
            \o SubSeq(members, before + 1, Len(members))

\* Value::get(key): None unless the value is an object that has the key.
Get(value, k) ==
    IF value.t = "obj" /\ \E i \in 1..Len(value.members) : value.members[i].k = k
    THEN Some(value.members[CHOOSE i \in 1..Len(value.members) :
                                value.members[i].k = k].v)
    ELSE None

\* ---- serde_json::from_slice ----
ParseFail == [ok |-> FALSE]
Parsed(v, next) == [ok |-> TRUE, v |-> v, next |-> next]

\* The first position from i on that holds no white space (Len + 1: none).
RECURSIVE SkipWs(_, _)
SkipWs(b, i) ==
    IF i <= Len(b) /\ b[i] \in {32, 10, 13, 9} THEN SkipWs(b, i + 1) ELSE i

At(b, i, c) == i <= Len(b) /\ b[i] = Ascii(c)

\* A string without escapes, b[i] being its opening quote.
ParseString(b, i) ==
    LET closing == {j \in (i + 1)..Len(b) : b[j] = Ascii("\"")}
    IN IF closing = {} THEN ParseFail
       ELSE LET j == CHOOSE x \in closing : \A y \in closing : x <= y
            IN Parsed(Str(SubSeq(b, i + 1, j - 1)), j + 1)

RECURSIVE ParseValue(_, _)
RECURSIVE ParseMembers(_, _, _)
RECURSIVE ParseItems(_, _, _)

\* The members of an object from position i (no white space there) on.
ParseMembers(b, i, members) ==
    IF ~At(b, i, "\"") THEN ParseFail
    ELSE Bind(ParseString(b, i), LAMBDA key :
         IF ~key.ok \/ ~At(b, SkipWs(b, key.next), ":") THEN ParseFail
         ELSE Bind(ParseValue(b, SkipWs(b, key.next) + 1), LAMBDA value :
              IF ~value.ok THEN ParseFail
              ELSE Bind(SkipWs(b, value.next), LAMBDA j :
                   Bind(MapInsert(members, key.v.s, value.v), LAMBDA grown :
                   IF At(b, j, ",") THEN ParseMembers(b, SkipWs(b, j + 1), grown)
                   ELSE IF At(b, j, "}") THEN Parsed(Obj(grown), j + 1)
                   ELSE ParseFail))))

\* The items of an array from position i on.
ParseItems(b, i, items) ==
    Bind(ParseValue(b, i), LAMBDA value :
         IF ~value.ok THEN ParseFail
         ELSE Bind(SkipWs(b, value.next), LAMBDA j :
              IF At(b, j, ",") THEN ParseItems(b, j + 1, Append(items, value.v))
              ELSE IF At(b, j, "]") THEN Parsed(Arr(Append(items, value.v)), j + 1)
              ELSE ParseFail))

ParseValue(b, i) ==
    Bind(SkipWs(b, i), LAMBDA j :
         IF At(b, j, "{")
         THEN IF At(b, SkipWs(b, j + 1), "}") THEN Parsed(Obj(<<>>), SkipWs(b, j + 1) + 1)
              ELSE ParseMembers(b, SkipWs(b, j + 1), <<>>)
         ELSE IF At(b, j, "[")
         THEN IF At(b, SkipWs(b, j + 1), "]") THEN Parsed(Arr(<<>>), SkipWs(b, j + 1) + 1)
              ELSE ParseItems(b, j + 1, <<>>)
         ELSE IF At(b, j, "\"") THEN ParseString(b, j)
         ELSE ParseFail)

\* from_slice: one value, then nothing but white space.
FromSlice(b) ==
    Bind(ParseValue(b, 1), LAMBDA value :
         IF value.ok /\ SkipWs(b, value.next) > Len(b) THEN Some(value.v) ELSE None)

\* ---- serde_json::to_vec: the compact text ----
RECURSIVE ToVec(_)
RECURSIVE JoinVec(_, _)
\* The texts of a sequence of values or members, separated by commas.
JoinVec(xs, i) ==
    IF i > Len(xs) THEN <<>>
    ELSE (IF i > 1 THEN <<Ascii(",")>> ELSE <<>>)
         \o (IF "k" \in DOMAIN xs[i]
             THEN <<Ascii("\"")>> \o xs[i].k \o <<Ascii("\""), Ascii(":")>> \o ToVec(xs[i].v)
             ELSE ToVec(xs[i]))
         \o JoinVec(xs, i + 1)
ToVec(value) ==
    IF value.t = "obj" THEN <<Ascii("{")>> \o JoinVec(value.members, 1) \o <<Ascii("}")>>
    ELSE IF value.t = "arr" THEN <<Ascii("[")>> \o JoinVec(value.items, 1) \o <<Ascii("]")>>
    ELSE <<Ascii("\"")>> \o value.s \o <<Ascii("\"")>>

NodesKey == Text(<<"n", "o", "d", "e", "s">>)
ScenesKey == Text(<<"s", "c", "e", "n", "e", "s">>)

\* `if x.get("nodes").is_none() { if let Some(obj) = x.as_object_mut() {
\* obj.insert("nodes", json!([])); patched = true } }`
InjectNodes(value) ==
    IF Get(value, NodesKey) = None /\ value.t = "obj"
    THEN [patched |-> TRUE,
          value |-> Obj(MapInsert(value.members, NodesKey, Arr(<<>>)))]
    ELSE [patched |-> FALSE, value |-> value]

\* Step 4: "nodes" is injected at the top level and in every scene.
InjectAll(json_value) ==
    LET top == InjectNodes(json_value)
        scenes == Get(top.value, ScenesKey)
    IN IF IsSome(scenes) /\ scenes.some.t = "arr"
       THEN LET done == [i \in 1..Len(scenes.some.items) |->
                            InjectNodes(scenes.some.items[i])]
            IN [patched |-> top.patched \/ \E i \in 1..Len(done) : done[i].patched,
                value |-> Obj(MapInsert(top.value.members, ScenesKey,
                              Arr([i \in 1..Len(done) |-> done[i].value])))]
       ELSE top

\* Step 2: the chunk headers are walked from position pos on until the JSON
\* chunk is met.
RECURSIVE FindJsonChunk(_, _)
FindJsonChunk(bytes, pos) ==
    IF pos >= Len(bytes) THEN [kind |-> "none"]
    ELSE LET chunk_len == ReadU32(bytes, pos)
             chunk_type == ReadU32(bytes, pos + 4)
         IN IF chunk_len = None \/ chunk_type = None THEN [kind |-> "err"]
            ELSE IF chunk_type.some = JSON_CHUNK
            THEN [kind |-> "found", json_chunk_length |-> chunk_len.some,
                  json_chunk_offset |-> pos + 8]
            ELSE FindJsonChunk(bytes, pos + 8 + chunk_len.some)

\* Step 6: the text is padded with spaces to a multiple of four bytes.
Pad4_None(text) == text
Pad4(text) == text \o [i \in 1..((4 - (Len(text) % 4)) % 4) |-> 32]

\* (old_chunk_data_len + 3) & !3
OldAlignedLen_Unaligned(old_chunk_data_len) == old_chunk_data_len
OldAlignedLen(old_chunk_data_len) == ((old_chunk_data_len + 3) \div 4) * 4

\* What patch_glb_json leaves: its result and the byte buffer.
Unpatched(result, bytes) == [result |-> result, bytes |-> bytes]

\* Step 7: the new file.
Reconstruct(bytes, json_chunk_offset, json_chunk_length, new_json_bytes) ==
    LET old_chunk_total_size == 8 + OldAlignedLen(json_chunk_length)
        new_chunk_data_len == Len(new_json_bytes)
        size_diff == (8 + new_chunk_data_len) - old_chunk_total_size
        old_total_len == ReadU32(bytes, 8).some
        chunk_header_offset == json_chunk_offset - 8
        remaining_start == chunk_header_offset + old_chunk_total_size
    IN [result |-> "Ok(true)",
        bytes |-> Slice(bytes, 0, 8) \o WriteU32(old_total_len + size_diff)
                  \o (IF chunk_header_offset > 12
                      THEN Slice(bytes, 12, chunk_header_offset) ELSE <<>>)
                  \o WriteU32(new_chunk_data_len) \o WriteU32(JSON_CHUNK)
                  \o new_json_bytes
                  \o (IF remaining_start < Len(bytes)
                      THEN Slice(bytes, remaining_start, Len(bytes)) ELSE <<>>),
        json_chunk_offset |-> json_chunk_offset,
        json_chunk_length |-> json_chunk_length,
        new_json_bytes |-> new_json_bytes,
        size_diff |-> size_diff]

\* Steps 3 to 6, the JSON chunk being found.  bytes[start..end] panics when
\* end is past the end of the buffer.
PatchJsonChunk(bytes, chunk) ==
    LET start == chunk.json_chunk_offset
        end == start + chunk.json_chunk_length
    IN IF end > Len(bytes) THEN Unpatched("panic", bytes)
       ELSE Bind(FromSlice(Slice(bytes, start, end)), LAMBDA json_value :
            IF json_value = None THEN Unpatched("Err", bytes)
            ELSE Bind(InjectAll(json_value.some), LAMBDA injected :
                 IF ~injected.patched THEN Unpatched("Ok(false)", bytes)
                 ELSE Bind(Pad4(ToVec(injected.value)), LAMBDA new_json_bytes :
                      Reconstruct(bytes, chunk.json_chunk_offset,
                                  chunk.json_chunk_length, new_json_bytes))))

PatchGlbJson(bytes) ==
    LET magic == ReadU32(bytes, 0)
    IN IF magic = None THEN Unpatched("Err", bytes)
       ELSE IF magic.some # GLB_MAGIC THEN Unpatched("Ok(false)", bytes)
       ELSE IF ReadU32(bytes, 4) = None \/ ReadU32(bytes, 8) = None
       THEN Unpatched("Err", bytes)
       ELSE Bind(FindJsonChunk(bytes, 12), LAMBDA chunk :
            IF chunk.kind = "err" THEN Unpatched("Err", bytes)
            ELSE IF chunk.kind = "none" THEN Unpatched("Ok(false)", bytes)
            ELSE PatchJsonChunk(bytes, chunk))

\* ---- the map files read ----
WhitespaceRun == 14
MaxCut == 26

Spaces(n) == [i \in 1..n |-> 32]

\* The JSON documents of the files: compact texts of documents that lack
\* "nodes" at the top level, in a scene, in one of two scenes, or nowhere; a
\* document that is no object; an object spread over white space; a text
\* that is cut off.
SceneWithoutNodes == ToVec(Obj(<<Member(ScenesKey, Arr(<<Obj(<<>>)>>))>>))
JsonTexts ==
    {SceneWithoutNodes,
     ToVec(Obj(<<Member(NodesKey, Arr(<<>>)),
                 Member(ScenesKey, Arr(<<Obj(<<Member(NodesKey, Arr(<<>>))>>)>>))>>)),
     ToVec(Obj(<<Member(NodesKey, Arr(<<>>)),
                 Member(ScenesKey, Arr(<<Obj(<<Member(NodesKey, Arr(<<>>))>>),
                                         Obj(<<>>)>>))>>)),
     ToVec(Obj(<<Member(Text(<<"a", "s", "s", "e", "t">>), Obj(<<>>))>>)),
     ToVec(Arr(<<>>)),
     Text(<<"{">>) \o Spaces(WhitespaceRun) \o Text(<<"}">>),
     Text(<<"{", "\"", "a">>)}

BinChunkType == ReadU32(<<66, 73, 78, 0>>, 0).some
Chunk(declared_len, chunk_type, data) ==
    WriteU32(declared_len) \o WriteU32(chunk_type) \o data

\* The JSON chunk of a file: padded and declared with its padded length;
\* padded but declared with the length of the text; declared with the length
\* of the text and not padded; declared longer than it is.
JsonChunkModes == {"aligned", "padded", "bare", "overrun"}
JsonChunk(text, mode) ==
    CASE mode = "aligned" -> Chunk(Len(Pad4(text)), JSON_CHUNK, Pad4(text))
      [] mode = "padded" -> Chunk(Len(text), JSON_CHUNK, Pad4(text))
      [] mode = "bare" -> Chunk(Len(text), JSON_CHUNK, text)
      [] mode = "overrun" -> Chunk(Len(text) + 8, JSON_CHUNK, text)

BinChunk == Chunk(4, BinChunkType, <<1, 2, 3, 4>>)

\* The total-length field of the header: right, zero, or too large.
TotalModes == {"exact", "zero", "more"}
Glb(total, pre, text, mode, post) ==
    LET body == pre \o JsonChunk(text, mode) \o post
    IN WriteU32(GLB_MAGIC) \o WriteU32(2)
       \o WriteU32(CASE total = "exact" -> 12 + Len(body)
                     [] total = "zero" -> 0
                     [] total = "more" -> 12 + Len(body) + 4)
       \o body

\* The first n bytes of a file.
Cut(file, n) == SubSeq(file, 1, IF n < Len(file) THEN n ELSE Len(file))

GlbFiles ==
    {Glb(total, pre, text, mode, post) :
        total \in TotalModes, pre \in {<<>>, BinChunk}, text \in JsonTexts,
        mode \in JsonChunkModes, post \in {<<>>, BinChunk}}
    \cup {Cut(Glb("exact", pre, SceneWithoutNodes, "aligned", BinChunk), n) :
             pre \in {<<>>, BinChunk}, n \in 0..MaxCut}
    \cup {Text(<<"{", "}">>) \o Spaces(WhitespaceRun)}

\* ========================================================================
\* CharacterModel::render: joint matrices and skinning
\* ========================================================================
\* Matrix4<f32> with integer entries: a tuple of four rows.
Identity4 == <<<<1, 0, 0, 0>>, <<0, 1, 0, 0>>, <<0, 0, 1, 0>>, <<0, 0, 0, 1>>>>
Zeros4 == <<<<0, 0, 0, 0>>, <<0, 0, 0, 0>>, <<0, 0, 0, 0>>, <<0, 0, 0, 0>>>>
MatMul(a, b) ==
    [i \in 1..4 |-> [j \in 1..4 |->
        a[i][1] * b[1][j] + a[i][2] * b[2][j] + a[i][3] * b[3][j] + a[i][4] * b[4][j]]]
MatAdd(a, b) == [i \in 1..4 |-> [j \in 1..4 |-> a[i][j] + b[i][j]]]
MatScale(a, w) == [i \in 1..4 |-> [j \in 1..4 |-> a[i][j] * w]]
Translation(x, y, z) ==
    <<<<1, 0, 0, x>>, <<0, 1, 0, y>>, <<0, 0, 1, z>>, <<0, 0, 0, 1>>>>
\* A quarter turn about the z axis.
RotationZ == <<<<0, -1, 0, 0>>, <<1, 0, 0, 0>>, <<0, 0, 1, 0>>, <<0, 0, 0, 1>>>>

\* A SkinnedMesh: joint_map (joint index -> bone name, a function on the
\* named joints), inverse_bind_matrices, vertices, indices (the triangle
\* list); `order` is the order in which the HashMap joint_map is iterated.
\* Weights are in quarters.
SkinnedMesh(joint_map, order, inverse_bind_matrices, vertices, indices) ==
    [joint_map |-> joint_map, order |-> order,
     inverse_bind_matrices |-> inverse_bind_matrices, vertices |-> vertices,
     indices |-> indices]
SkinnedVertex(position, joints, weights) ==
    [position |-> position, joints |-> joints, weights |-> weights]

\* self.mesh.inverse_bind_matrices.get(joint_idx).cloned()
\*     .unwrap_or_else(Matrix4::identity)
InverseBind(mesh, joint_idx) ==
    IF joint_idx < Len(mesh.inverse_bind_matrices)
    THEN mesh.inverse_bind_matrices[joint_idx + 1] ELSE Identity4

\* bone_transforms.get("pelvis").or_else(|| bone_transforms.get("root"))
\*     .cloned().unwrap_or_else(Matrix4::identity)
FallbackTransform(bone_transforms) ==
    IF "pelvis" \in DOMAIN bone_transforms THEN bone_transforms["pelvis"]
    ELSE IF "root" \in DOMAIN bone_transforms THEN bone_transforms["root"]
    ELSE Identity4

\* joint_matrices[joint_idx] = m: None when the index is out of bounds (the
\* assignment panics).
SetJointMatrix(joint_matrices, joint_idx, matrix) ==
    IF joint_idx < Len(joint_matrices)
    THEN Some([joint_matrices EXCEPT ![joint_idx + 1] = matrix])
    ELSE None

\* skin_matrix after the four `if v.weights[k] > 0.0 { skin_matrix +=
\* joint_matrices[v.joints[k]] * v.weights[k] }`, from k on; None when a
\* joint index with a positive weight is out of bounds.
RECURSIVE SkinMatrix(_, _, _, _)
SkinMatrix(joint_matrices, v, k, skin_matrix) ==
    IF k > 4 THEN Some(skin_matrix)
    ELSE IF v.weights[k] > 0
    THEN IF v.joints[k] < Len(joint_matrices)
         THEN SkinMatrix(joint_matrices, v, k + 1,
                         MatAdd(skin_matrix,
                                MatScale(joint_matrices[v.joints[k] + 1], v.weights[k])))
         ELSE None
    ELSE SkinMatrix(joint_matrices, v, k + 1, skin_matrix)

\* Matrix4::transform_point: the point is transformed and divided by its
\* homogeneous coordinate unless that is zero.  The result is
\* <<numerator vector, denominator>>.
TransformPoint(matrix, p) ==
    LET x == matrix[1][1] * p[1] + matrix[1][2] * p[2] + matrix[1][3] * p[3] + matrix[1][4]
        y == matrix[2][1] * p[1] + matrix[2][2] * p[2] + matrix[2][3] * p[3] + matrix[2][4]
        z == matrix[3][1] * p[1] + matrix[3][2] * p[2] + matrix[3][3] * p[3] + matrix[3][4]
        n == matrix[4][1] * p[1] + matrix[4][2] * p[2] + matrix[4][3] * p[3] + matrix[4][4]
    IN IF n # 0 THEN <<<<x, y, z>>, n>> ELSE <<<<x, y, z>>, 1>>

\* One vertex of the skinning loop: its world position, or None on a panic.
\* The weights being in quarters, an identity skin matrix is written 4 * I.
SkinVertex(joint_matrices, v) ==
    Bind(SkinMatrix(joint_matrices, v, 1, Zeros4), LAMBDA skin_matrix :
         IF skin_matrix = None THEN None
         ELSE IF skin_matrix.some[4][4] = 0
         THEN Some(TransformPoint(MatScale(Identity4, 4), v.position))
         ELSE Some(TransformPoint(skin_matrix.some, v.position)))

\* The skinning loop: the transformed vertices, or None on a panic.
Skinning(joint_matrices, vertices) ==
    LET skinned == [i \in 1..Len(vertices) |-> SkinVertex(joint_matrices, vertices[i])]
    IN IF \E i \in 1..Len(vertices) : skinned[i] = None THEN None
       ELSE Some([i \in 1..Len(vertices) |-> skinned[i].some])

\* The chunks of three indices that `for chunk in self.mesh.indices.chunks(3)`
\* does not skip (`if chunk.len() < 3 { continue; }`): their first positions.
FullChunks(indices) == {i \in 1..Len(indices) : i % 3 = 1 /\ i + 2 <= Len(indices)}

\* The triangle assembly reads transformed_vertices[i0], [i1], [i2] of every
\* full chunk: the triangles as triples of world positions, or None when an
\* index is out of bounds (the read panics).
TriangleAssembly(indices, transformed_vertices) ==
    IF \E i \in FullChunks(indices), d \in 0..2 :
          indices[i + d] >= Len(transformed_vertices)
    THEN None
    ELSE Some({<<transformed_vertices[indices[i] + 1],
                 transformed_vertices[indices[i + 1] + 1],
                 transformed_vertices[indices[i + 2] + 1]>> : i \in FullChunks(indices)})

\* ---- the models loaded and the poses rendered ----
RigVertices ==
    <<SkinnedVertex(<<1, 0, 0>>, <<0, 0, 0, 0>>, <<4, 0, 0, 0>>),
      SkinnedVertex(<<0, 2, 0>>, <<1, 2, 0, 0>>, <<2, 2, 0, 0>>),
      SkinnedVertex(<<0, 0, 3>>, <<2, 0, 0, 0>>, <<0, 0, 0, 0>>)>>
RigNames == (0 :> "pelvis") @@ (1 :> "spine_1") @@ (2 :> "arm_upper_L")
RigBinds == <<Translation(0, 0, -1), Translation(0, -2, 0), Translation(-1, 0, -3)>>
\* Two triangles over the three vertices and an index left over.
RigIndices == <<0, 1, 2, 2, 1, 0, 1>>

\* A rig with a name and an inverse bind matrix for each of three joints, in
\* two iteration orders; the rig with its middle joint unnamed; the rig of a
\* skin that has no inverse bind matrices; and the rig whose index buffer
\* names a vertex past the last.
Rigs ==
    {SkinnedMesh(RigNames, <<0, 1, 2>>, RigBinds, RigVertices, RigIndices),
     SkinnedMesh(RigNames, <<2, 1, 0>>, RigBinds, RigVertices, RigIndices),
     SkinnedMesh((0 :> "pelvis") @@ (2 :> "arm_upper_L"), <<2, 0>>, RigBinds, RigVertices,
                 RigIndices),
     SkinnedMesh(RigNames, <<0, 1, 2>>, <<>>, RigVertices, RigIndices),
     SkinnedMesh(RigNames, <<0, 1, 2>>, RigBinds, RigVertices, <<0, 1, 3>>)}

\* bone_transforms: every bone; the arm missing; pelvis and spine missing
\* with a root bone; no bone at all.
Poses ==
    {("pelvis" :> Translation(5, 0, 0)) @@ ("spine_1" :> RotationZ)
        @@ ("arm_upper_L" :> Translation(0, 7, 0)),
     ("pelvis" :> Translation(5, 0, 0)) @@ ("spine_1" :> RotationZ),
     ("root" :> RotationZ) @@ ("arm_upper_L" :> Translation(0, 7, 0)),
     << >>}

NumCalls == 2
Calls == 1..NumCalls

\* A render call that is not running.
IdleCall ==
    [pc |-> "idle", bone_transforms |-> << >>, next |-> 0, joint_matrices |-> << >>,
     skipped |-> {}, skinned |-> None]

\* The bone names of the rigs.
BoneNames == UNION {{mesh.joint_map[j] : j \in DOMAIN mesh.joint_map} : mesh \in Rigs}

\* ========================================================================
\* CharacterModel::normalize_bone_name: names as sequences of characters
\* ========================================================================
UpperLetters == <<"A", "B", "C", "D", "E", "F", "G", "H", "I", "J", "K", "L", "M",
                  "N", "O", "P", "Q", "R", "S", "T", "U", "V", "W", "X", "Y", "Z">>
LowerLetters == <<"a", "b", "c", "d", "e", "f", "g", "h", "i", "j", "k", "l", "m",
                  "n", "o", "p", "q", "r", "s", "t", "u", "v", "w", "x", "y", "z">>

\* str::to_lowercase, for ASCII names.
ToLowercase(name) ==
    [i \in 1..Len(name) |->
        IF \E k \in 1..26 : UpperLetters[k] = name[i]
        THEN LowerLetters[CHOOSE k \in 1..26 : UpperLetters[k] = name[i]]
        ELSE name[i]]

\* str::replace of one character by another.
Replace(name, from, to) == [i \in 1..Len(name) |-> IF name[i] = from THEN to ELSE name[i]]

\* str::strip_prefix: Some(rest) when name starts with prefix, else None.
StripPrefix(name, prefix) ==
    IF Len(name) >= Len(prefix) /\ SubSeq(name, 1, Len(prefix)) = prefix
    THEN Some(SubSeq(name, Len(prefix) + 1, Len(name)))
    ELSE None

\* Option::unwrap_or
UnwrapOr(option, default) == IF IsSome(option) THEN option.some ELSE default

Mixamorig == <<"m", "i", "x", "a", "m", "o", "r", "i", "g", ":">>
ValveBiped == <<"v", "a", "l", "v", "e", "b", "i", "p", "e", "d", "_">>
Bip01 == <<"b", "i", "p", "0", "1", "_">>

\* The arms of the match in normalize_bone_name, in source order: the
\* patterns of an arm and the name it returns.
AliasTable ==
    <<[aliases |-> {<<"h", "i", "p", "s">>,
                     <<"p", "e", "l", "v", "i", "s">>,
                     <<"r", "o", "o", "t">>},
       canonical |-> <<"p", "e", "l", "v", "i", "s">>],
      [aliases |-> {<<"s", "p", "i", "n", "e">>,
                     <<"s", "p", "i", "n", "e", "1">>,
                     <<"s", "p", "i", "n", "e", "_", "0", "1">>,
                     <<"s", "p", "i", "n", "e", "_", "1">>,
                     <<"s", "p", "i", "n", "e", "0", "1">>},
       canonical |-> <<"s", "p", "i", "n", "e", "_", "1">>],
      [aliases |-> {<<"s", "p", "i", "n", "e", "2">>,
                     <<"s", "p", "i", "n", "e", "_", "0", "2">>,
                     <<"s", "p", "i", "n", "e", "_", "2">>,
                     <<"s", "p", "i", "n", "e", "0", "2">>},
       canonical |-> <<"s", "p", "i", "n", "e", "_", "2">>],
      [aliases |-> {<<"s", "p", "i", "n", "e", "3">>,
                     <<"s", "p", "i", "n", "e", "_", "0", "3">>,
                     <<"s", "p", "i", "n", "e", "_", "3">>,
                     <<"s", "p", "i", "n", "e", "0", "3">>},
       canonical |-> <<"s", "p", "i", "n", "e", "_", "3">>],
      [aliases |-> {<<"n", "e", "c", "k">>,
                     <<"n", "e", "c", "k", "1">>,
                     <<"n", "e", "c", "k", "_", "0", "1">>,
                     <<"n", "e", "c", "k", "_", "1">>,
                     <<"n", "e", "c", "k", "0", "1">>},
       canonical |-> <<"n", "e", "c", "k", "_", "0">>],
      [aliases |-> {<<"h", "e", "a", "d">>,
                     <<"h", "e", "a", "d", "1">>,
                     <<"h", "e", "a", "d", "_", "0", "1">>,
                     <<"h", "e", "a", "d", "_", "1">>,
                     <<"h", "e", "a", "d", "0", "1">>},
       canonical |-> <<"h", "e", "a", "d", "_", "0">>],
      [aliases |-> {<<"l", "e", "f", "t", "a", "r", "m">>,
                     <<"l", "_", "u", "p", "p", "e", "r", "a", "r", "m">>,
                     <<"u", "p", "p", "e", "r", "a", "r", "m", "_", "l">>,
                     <<"l", "_", "a", "r", "m">>,
                     <<"a", "r", "m", "_", "l">>,
                     <<"l", "e", "f", "t", "_", "a", "r", "m">>,
                     <<"l", "_", "u", "p", "p", "e", "r", "_", "a", "r", "m">>,
                     <<"u", "p", "p", "e", "r", "_", "a", "r", "m", "_", "l">>,
                     <<"l", "e", "f", "t", "_", "u", "p", "p", "e", "r", "_", "a", "r", "m">>,
                     <<"s", "h", "o", "u", "l", "d", "e", "r", "_", "l">>,
                     <<"l", "_", "s", "h", "o", "u", "l", "d", "e", "r">>,
                     <<"a", "r", "m", "_", "u", "p", "p", "e", "r", "_", "l">>},
       canonical |-> <<"a", "r", "m", "_", "u", "p", "p", "e", "r", "_", "L">>],
      [aliases |-> {<<"l", "e", "f", "t", "f", "o", "r", "e", "a", "r", "m">>,
                     <<"l", "_", "f", "o", "r", "e", "a", "r", "m">>,
                     <<"f", "o", "r", "e", "a", "r", "m", "_", "l">>,
                     <<"l", "_", "f", "o", "r", "e", "_", "a", "r", "m">>,
                     <<"f", "o", "r", "e", "_", "a", "r", "m", "_", "l">>,
                     <<"l", "e", "f", "t", "_", "f", "o", "r", "e", "_", "a", "r", "m">>,
                     <<"l", "_", "l", "o", "w", "e", "r", "a", "r", "m">>,
                     <<"l", "o", "w", "e", "r", "a", "r", "m", "_", "l">>,
                     <<"a", "r", "m", "_", "l", "o", "w", "e", "r", "_", "l">>},
       canonical |-> <<"a", "r", "m", "_", "l", "o", "w", "e", "r", "_", "L">>],
      [aliases |-> {<<"l", "e", "f", "t", "h", "a", "n", "d">>,
                     <<"l", "_", "h", "a", "n", "d">>,
                     <<"h", "a", "n", "d", "_", "l">>,
                     <<"l", "e", "f", "t", "_", "h", "a", "n", "d">>},
       canonical |-> <<"h", "a", "n", "d", "_", "L">>],
      [aliases |-> {<<"r", "i", "g", "h", "t", "a", "r", "m">>,
                     <<"r", "_", "u", "p", "p", "e", "r", "a", "r", "m">>,
                     <<"u", "p", "p", "e", "r", "a", "r", "m", "_", "r">>,
                     <<"r", "_", "a", "r", "m">>,
                     <<"a", "r", "m", "_", "r">>,
                     <<"r", "i", "g", "h", "t", "_", "a", "r", "m">>,
                     <<"r", "_", "u", "p", "p", "e", "r", "_", "a", "r", "m">>,
                     <<"u", "p", "p", "e", "r", "_", "a", "r", "m", "_", "r">>,
                     <<"r", "i", "g", "h", "t", "_", "u", "p", "p", "e", "r", "_", "a", "r", "m">>,
                     <<"s", "h", "o", "u", "l", "d", "e", "r", "_", "r">>,
                     <<"r", "_", "s", "h", "o", "u", "l", "d", "e", "r">>,
                     <<"a", "r", "m", "_", "u", "p", "p", "e", "r", "_", "r">>},
       canonical |-> <<"a", "r", "m", "_", "u", "p", "p", "e", "r", "_", "R">>],
      [aliases |-> {<<"r", "i", "g", "h", "t", "f", "o", "r", "e", "a", "r", "m">>,
                     <<"r", "_", "f", "o", "r", "e", "a", "r", "m">>,
                     <<"f", "o", "r", "e", "a", "r", "m", "_", "r">>,
                     <<"r", "_", "f", "o", "r", "e", "_", "a", "r", "m">>,
                     <<"f", "o", "r", "e", "_", "a", "r", "m", "_", "r">>,
                     <<"r", "i", "g", "h", "t", "_", "f", "o", "r", "e", "_", "a", "r", "m">>,
                     <<"r", "_", "l", "o", "w", "e", "r", "a", "r", "m">>,
                     <<"l", "o", "w", "e", "r", "a", "r", "m", "_", "r">>,
                     <<"a", "r", "m", "_", "l", "o", "w", "e", "r", "_", "r">>},
       canonical |-> <<"a", "r", "m", "_", "l", "o", "w", "e", "r", "_", "R">>],
      [aliases |-> {<<"r", "i", "g", "h", "t", "h", "a", "n", "d">>,
                     <<"r", "_", "h", "a", "n", "d">>,
                     <<"h", "a", "n", "d", "_", "r">>,
                     <<"r", "i", "g", "h", "t", "_", "h", "a", "n", "d">>},
       canonical |-> <<"h", "a", "n", "d", "_", "R">>],
      [aliases |-> {<<"l", "e", "f", "t", "u", "p", "l", "e", "g">>,
                     <<"l", "_", "t", "h", "i", "g", "h">>,
                     <<"t", "h", "i", "g", "h", "_", "l">>,
                     <<"l", "_", "u", "p", "_", "l", "e", "g">>,
                     <<"u", "p", "_", "l", "e", "g", "_", "l">>,
                     <<"l", "e", "f", "t", "_", "u", "p", "_", "l", "e", "g">>,
                     <<"u", "p", "l", "e", "g", "_", "l">>,
                     <<"l", "_", "u", "p", "l", "e", "g">>,
                     <<"l", "e", "f", "t", "_", "t", "h", "i", "g", "h">>,
                     <<"l", "_", "u", "p", "p", "e", "r", "_", "l", "e", "g">>,
                     <<"u", "p", "p", "e", "r", "_", "l", "e", "g", "_", "l">>,
                     <<"l", "e", "g", "_", "u", "p", "p", "e", "r", "_", "l">>},
       canonical |-> <<"l", "e", "g", "_", "u", "p", "p", "e", "r", "_", "L">>],
      [aliases |-> {<<"l", "e", "f", "t", "l", "e", "g">>,
                     <<"l", "_", "c", "a", "l", "f">>,
                     <<"c", "a", "l", "f", "_", "l">>,
                     <<"l", "_", "s", "h", "i", "n">>,
                     <<"s", "h", "i", "n", "_", "l">>,
                     <<"l", "e", "f", "t", "_", "s", "h", "i", "n">>,
                     <<"l", "e", "f", "t", "_", "c", "a", "l", "f">>,
                     <<"l", "_", "l", "e", "g">>,
                     <<"l", "e", "g", "_", "l">>,
                     <<"l", "e", "f", "t", "_", "l", "e", "g">>,
                     <<"l", "e", "g", "_", "l", "o", "w", "e", "r", "_", "l">>},
       canonical |-> <<"l", "e", "g", "_", "l", "o", "w", "e", "r", "_", "L">>],
      [aliases |-> {<<"l", "e", "f", "t", "f", "o", "o", "t">>,
                     <<"l", "_", "f", "o", "o", "t">>,
                     <<"f", "o", "o", "t", "_", "l">>,
                     <<"l", "e", "f", "t", "_", "f", "o", "o", "t">>,
                     <<"a", "n", "k", "l", "e", "_", "l">>},
       canonical |-> <<"a", "n", "k", "l", "e", "_", "L">>],
      [aliases |-> {<<"r", "i", "g", "h", "t", "u", "p", "l", "e", "g">>,
                     <<"r", "_", "t", "h", "i", "g", "h">>,
                     <<"t", "h", "i", "g", "h", "_", "r">>,
                     <<"r", "_", "u", "p", "_", "l", "e", "g">>,
                     <<"u", "p", "_", "l", "e", "g", "_", "r">>,
                     <<"r", "i", "g", "h", "t", "_", "u", "p", "_", "l", "e", "g">>,
                     <<"u", "p", "l", "e", "g", "_", "r">>,
                     <<"r", "_", "u", "p", "l", "e", "g">>,
                     <<"r", "i", "g", "h", "t", "_", "t", "h", "i", "g", "h">>,
                     <<"r", "_", "u", "p", "p", "e", "r", "_", "l", "e", "g">>,
                     <<"u", "p", "p", "e", "r", "_", "l", "e", "g", "_", "r">>,
                     <<"l", "e", "g", "_", "u", "p", "p", "e", "r", "_", "r">>},
       canonical |-> <<"l", "e", "g", "_", "u", "p", "p", "e", "r", "_", "R">>],
      [aliases |-> {<<"r", "i", "g", "h", "t", "l", "e", "g">>,
                     <<"r", "_", "c", "a", "l", "f">>,
                     <<"c", "a", "l", "f", "_", "r">>,
                     <<"r", "_", "s", "h", "i", "n">>,
                     <<"s", "h", "i", "n", "_", "r">>,
                     <<"r", "i", "g", "h", "t", "_", "s", "h", "i", "n">>,
                     <<"r", "i", "g", "h", "t", "_", "c", "a", "l", "f">>,
                     <<"r", "_", "l", "e", "g">>,
                     <<"l", "e", "g", "_", "r">>,
                     <<"r", "i", "g", "h", "t", "_", "l", "e", "g">>,
                     <<"l", "e", "g", "_", "l", "o", "w", "e", "r", "_", "r">>},
       canonical |-> <<"l", "e", "g", "_", "l", "o", "w", "e", "r", "_", "R">>],
      [aliases |-> {<<"r", "i", "g", "h", "t", "f", "o", "o", "t">>,
                     <<"r", "_", "f", "o", "o", "t">>,
                     <<"f", "o", "o", "t", "_", "r">>,
                     <<"r", "i", "g", "h", "t", "_", "f", "o", "o", "t">>,
                     <<"a", "n", "k", "l", "e", "_", "r">>},
       canonical |-> <<"a", "n", "k", "l", "e", "_", "R">>]>>

\* The match: the name of the first arm with the pattern `stripped`, else
\* `stripped` itself.
MatchAlias(stripped) ==
    IF \E k \in 1..Len(AliasTable) : stripped \in AliasTable[k].aliases
    THEN AliasTable[CHOOSE k \in 1..Len(AliasTable) :
                       /\ stripped \in AliasTable[k].aliases
                       /\ \A j \in 1..(k - 1) : stripped \notin AliasTable[j].aliases].canonical
    ELSE stripped

\* Every unwrap_or of the chain falls back to `lower`, not to the string the
\* strip_prefix before it returned.
NormalizeBoneName(name) ==
    LET lower == Replace(Replace(ToLowercase(name), ".", "_"), " ", "_")
        no_mixamo == UnwrapOr(StripPrefix(lower, Mixamorig), lower)
        no_valve == UnwrapOr(StripPrefix(no_mixamo, ValveBiped), lower)
        stripped == UnwrapOr(StripPrefix(no_valve, Bip01), lower)
    IN MatchAlias(stripped)

\* Joint names as asset files write them: a rig prefix or none, then the
\* name of the bone (the patterns of the first arm, one pattern of every
\* other arm, two names outside the table), in lower case, in upper case or
\* capitalised.
ToUppercase(name) ==
    [i \in 1..Len(name) |->
        IF \E k \in 1..26 : LowerLetters[k] = name[i]
        THEN UpperLetters[CHOOSE k \in 1..26 : LowerLetters[k] = name[i]]
        ELSE name[i]]
Capitalised(name) ==
    IF name = <<>> THEN name ELSE ToUppercase(SubSeq(name, 1, 1)) \o SubSeq(name, 2, Len(name))
WrittenPrefixes ==
    {<<>>, Mixamorig, ValveBiped, Bip01,
     <<"V", "a", "l", "v", "e", "B", "i", "p", "e", "d", ".">>,
     <<"B", "i", "p", "0", "1", " ">>}
BoneStems ==
    AliasTable[1].aliases
    \cup {CHOOSE alias \in AliasTable[k].aliases : TRUE : k \in 2..Len(AliasTable)}
    \cup {<<"t", "a", "i", "l">>, <<"w", "e", "a", "p", "o", "n", "_", "h", "a", "n", "d">>}
JointNames ==
    UNION {{prefix \o stem, prefix \o ToUppercase(stem), prefix \o Capitalised(stem),
            ToUppercase(prefix \o stem)} :
              <<prefix, stem>> \in WrittenPrefixes \X BoneStems}

\* ========================================================================
\* Map file loading and collision queries as a state machine
\* ========================================================================
VARIABLES
    raw_triangles,    \* load(): the triangles read from the file so far
    primitives_read,  \* load(): number of mesh primitives read so far
    loaded,           \* None while load() runs, then Some(MapMesh)
    ray,              \* None, or the last segment queried: [start, end]
    ray_hit,          \* the result of the last query
    capsule           \* None, or the last capsule query: [start, end, radius, hit]

mesh_vars == <<raw_triangles, primitives_read, loaded, ray, ray_hit, capsule>>

VARIABLES
    walk    \* None, or the locals of a check_collision_ray call, one loop turn at a time

walk_vars == <<walk>>

VARIABLES
    trajectory,        \* GrenadeTrajectory.trajectory: None or Some(path)
    active_type,       \* GrenadeTrajectory.active_type
    map_mesh,          \* GrenadeTrajectory.map_mesh: None or Some(MapMesh)
    current_map_name,  \* GrenadeTrajectory.current_map_name
    last_calc_state,   \* GrenadeTrajectory.last_calc_state
    last_logged_wid,   \* GrenadeTrajectory.last_logged_wid
    outcome,           \* what update() did in the running frame; None between frames
    input_state,       \* the TrajectoryState the latest update() built, if it built one
    drawn              \* the path render() drew in the latest finished frame

traj_vars == <<trajectory, active_type, map_mesh, current_map_name, last_calc_state,
               last_logged_wid, outcome, input_state, drawn>>
VARIABLES
    file_bytes,   \* load(): the byte buffer, None before the file is read
    read_bytes,   \* the bytes std::fs::read returned
    patch,        \* None, or what patch_glb_json did
    load_stage    \* how far load() got with the file

glb_vars == <<file_bytes, read_bytes, patch, load_stage>>

VARIABLES
    model,                 \* None, or the SkinnedMesh of the CharacterModel loaded
    missing_bones_logged,  \* CharacterModel.missing_bones_logged: the set in the Mutex
    lock_holder,           \* the render call that holds the Mutex, 0 when it is free
    calls,                 \* the render calls: where each is and its locals
    times_recorded         \* bone name -> how often it was inserted in the set

bone_vars == <<model, missing_bones_logged, lock_holder, calls, times_recorded>>

VARIABLES
    joint_name    \* load(): None, or the joint being named: [raw, normalized]

name_vars == <<joint_name>>

vars == <<mesh_vars, walk_vars, traj_vars, glb_vars, bone_vars, name_vars>>
\* What the map loader and the collision queries leave alone, and what the
\* trajectory preview leaves alone.
outside_mesh == <<walk_vars, traj_vars, glb_vars, bone_vars, name_vars>>
outside_traj == <<mesh_vars, walk_vars, glb_vars, bone_vars, name_vars>>
outside_glb == <<mesh_vars, walk_vars, traj_vars, bone_vars, name_vars>>
outside_bone == <<mesh_vars, walk_vars, traj_vars, glb_vars, name_vars>>
outside_walk == <<mesh_vars, traj_vars, glb_vars, bone_vars, name_vars>>
outside_name == <<mesh_vars, walk_vars, traj_vars, glb_vars, bone_vars>>

\* load() before the file is read.
GlbNew ==
    /\ file_bytes = None
    /\ read_bytes = None
    /\ patch = None
    /\ load_stage = "start"

\* No CharacterModel is loaded and no render call runs.
BoneNew ==
    /\ model = None
    /\ missing_bones_logged = {}
    /\ lock_holder = 0
    /\ calls = [c \in Calls |-> IdleCall]
    /\ times_recorded = [name \in BoneNames |-> 0]

\* GrenadeTrajectory::new
New ==
    /\ trajectory = None
    /\ active_type = "Unknown"
    /\ map_mesh = None
    /\ current_map_name = None
    /\ last_calc_state = None
    /\ last_logged_wid = None
    /\ outcome = None
    /\ input_state = None
    /\ drawn = None

\* The mesh primitives a map file is made of, in world units.
FloorQuad ==
    <<Triangle(<<0, 0, 0>>, <<6, 0, 0>>, <<6, 6, 0>>),
      Triangle(<<0, 0, 0>>, <<6, 6, 0>>, <<0, 6, 0>>)>>
WallQuad ==
    <<Triangle(<<6, 0, 0>>, <<6, 0, 6>>, <<6, 6, 6>>),
      Triangle(<<6, 0, 0>>, <<6, 6, 6>>, <<6, 6, 0>>)>>
\* Nine small upward-facing steps along x, rising with x.
StepStrip ==
    [k \in 1..9 |-> Triangle(<<k - 1, 0, (k - 1) \div 3>>, <<k, 0, (k - 1) \div 3>>,
                             <<k - 1, 3, (k - 1) \div 3>>)]
\* A slanted face, a ceiling facing down, and a degenerate (collinear) chunk.
OddShapes ==
    <<Triangle(<<0, 0, 3>>, <<3, 0, 0>>, <<0, 3, 0>>),
      Triangle(<<0, 0, 4>>, <<0, 6, 4>>, <<6, 0, 4>>),
      Triangle(<<1, 1, 1>>, <<2, 2, 2>>, <<3, 3, 3>>)>>
\* A map of one triangle.
LoneTriangle == <<Triangle(<<1, 1, 1>>, <<4, 1, 1>>, <<1, 5, 2>>)>>
Primitives == <<FloorQuad, WallQuad, StepStrip, OddShapes, LoneTriangle>>

SelectPolicies == {"asc", "desc"}

\* End points of the segments queried, in world units.
QueryStarts == {<<2, 2, 3>>, <<0, 3, 2>>, <<3, 3, -2>>, <<1, 1, 5>>}
QueryEnds == {<<2, 2, -1>>, <<0, 3, -2>>, <<3, 3, 5>>, <<5, 5, -1>>, <<9, 3, 3>>,
              <<2, 2, 3>>}

\* The segments and radii of the capsule queries.
CapsuleQueries == {<<<<2, 2, 3>>, <<2, 2, -1>>>>, <<<<3, 3, -2>>, <<3, 3, 5>>>>,
                   <<<<1, 1, 5>>, <<5, 5, -1>>>>}
CapsuleRadii == {0, GrenadeRadius}

EmptyMesh_RootOnly == [triangles |-> <<>>, nodes |-> <<LinearNode(AABBNew, 0, 0)>>]
EmptyMesh == [triangles |-> <<>>, nodes |-> <<>>]

MeshInit ==
    /\ raw_triangles = <<>>
    /\ primitives_read = 0
    /\ loaded = None
    /\ ray = None
    /\ ray_hit = None
    /\ capsule = None
    /\ walk = None
    /\ joint_name = None
    /\ New
    /\ GlbNew
    /\ BoneNew

\* load(): one mesh primitive of the scene is read and its index chunks are
\* pushed to raw_triangles.
ReadPrimitive(p) ==
    /\ loaded = None
    /\ primitives_read < MaxPrimitives
    /\ raw_triangles' = raw_triangles \o Primitives[p]
    /\ primitives_read' = primitives_read + 1
    /\ UNCHANGED <<loaded, ray, ray_hit, capsule, outside_mesh>>

\* load(): the scene is read; the BVH is built unless there is no triangle.
FinishLoad(policy) ==
    /\ loaded = None
    /\ loaded' = Some(IF raw_triangles # <<>>
                      THEN BuildLinearBvh(raw_triangles, policy)
                      ELSE EmptyMesh)
    /\ UNCHANGED <<raw_triangles, primitives_read, ray, ray_hit, capsule, outside_mesh>>

\* One single-ray query against the loaded mesh.
QueryRay(start, end) ==
    /\ IsSome(loaded)
    /\ ray' = Some([start |-> start, end |-> end])
    /\ ray_hit' = CheckCollisionRay(loaded.some, start, end)
    /\ capsule' = None
    /\ UNCHANGED <<raw_triangles, primitives_read, loaded, outside_mesh>>

\* One capsule query against the loaded mesh.
QueryCapsule(start, end, radius) ==
    /\ IsSome(loaded)
    /\ capsule' = Some([start |-> start, end |-> end, radius |-> radius,
                        hit |-> CheckCollision(loaded.some, start, end, radius)])
    /\ ray' = None
    /\ ray_hit' = None
    /\ UNCHANGED <<raw_triangles, primitives_read, loaded, outside_mesh>>

MeshNext ==
    \/ \E p \in 1..Len(Primitives) : ReadPrimitive(p)
    \/ \E policy \in SelectPolicies : FinishLoad(policy)
    \/ \E s \in QueryStarts, e \in QueryEnds :
          QueryRay(VScale(s, PosScale), VScale(e, PosScale))
    \/ \E q \in CapsuleQueries, radius \in CapsuleRadii :
          QueryCapsule(VScale(q[1], PosScale), VScale(q[2], PosScale), radius)

MeshSpec == MeshInit /\ [][MeshNext]_vars

\* ------------------------------------------------------------------------
\* check_collision_ray, one turn of `while stack_ptr > 0` per step
\* ------------------------------------------------------------------------
\* The call starts: the locals before the loop.  stack holds the live slots;
\* popped is the sequence of node_idx values read from the stack so far;
\* entered is the set of branches that passed the AABB test.
BeginWalk(start, end) ==
    /\ IsSome(loaded)
    /\ (IF walk = None THEN TRUE ELSE walk.stack = <<>>)
    /\ LET dir == VSub(end, start)
       IN walk' = [start |-> start, end |-> end,
                   stack |-> IF dir = Zero3 \/ Len(loaded.some.nodes) = 0
                             THEN <<>> ELSE <<0>>,
                   st |-> [closest_dist |-> <<RayLen(dir), 1>>, closest_hit |-> None],
                   popped |-> <<>>, entered |-> {}]
    /\ UNCHANGED outside_walk

\* One turn of the loop.
WalkStep ==
    /\ walk # None
    /\ Len(walk.stack) > 0
    /\ LET stack_ptr == Len(walk.stack) - 1
           node_idx == walk.stack[Len(walk.stack)]
           live == SubSeq(walk.stack, 1, stack_ptr)
           node == loaded.some.nodes[node_idx + 1]
           dir == VSub(walk.end, walk.start)
           seen == [walk EXCEPT !.popped = Append(walk.popped, node_idx)]
       IN walk' =
            IF ~AABBIntersect(node.aabb, walk.start, DirNorm(dir), walk.st.closest_dist)
            THEN [seen EXCEPT !.stack = live]
            ELSE IF node.count > 0
            THEN [seen EXCEPT !.stack = live,
                              !.st = TestLeaf(loaded.some.triangles, node.offset,
                                              node.offset + node.count, walk.start,
                                              DirNorm(dir), RayLen(dir), walk.st)]
            ELSE [seen EXCEPT !.stack = IF HasRoom(stack_ptr)
                                        THEN PushChildren(live, node, node_idx)
                                        ELSE live,
                              !.entered = walk.entered \cup {node_idx}]
    /\ UNCHANGED outside_walk

WalkNext ==
    \/ \E p \in 1..Len(Primitives) : ReadPrimitive(p)
    \/ \E policy \in SelectPolicies : FinishLoad(policy)
    \/ \E s \in QueryStarts, e \in QueryEnds :
          BeginWalk(VScale(s, PosScale), VScale(e, PosScale))
    \/ WalkStep

WalkSpec == MeshInit /\ [][WalkNext]_vars

\* ========================================================================
\* GrenadeTrajectory::update and ::render as a state machine
\* ========================================================================
\* WeaponId and the ids whose flags() carry WEAPON_FLAG_TYPE_GRENADE.
GrenadeIds == {"Smokegrenade", "Molotov", "Incendiary", "Flashbang", "Decoy", "HZgrenade"}

ActiveTypeOf(wid) ==
    CASE wid = "Smokegrenade" -> "Smoke"
      [] wid = "Molotov" -> "Molotov"
      [] wid = "Incendiary" -> "Molotov"
      [] wid = "Flashbang" -> "Flash"
      [] wid = "Decoy" -> "Decoy"
      [] wid = "HZgrenade" -> "HE"
      [] OTHER -> "Unknown"

\* throw_strength in units of 1/100.
ThrowStrength(left_click, right_click) ==
    IF left_click /\ right_click THEN 70 ELSE IF right_click THEN 39 ELSE 100

\* norm_squared() > limit, without leaving the 32-bit range.
NormSquaredAbove_Never(d, limit) == FALSE
NormSquaredAbove(d, limit) ==
    \/ \E k \in 1..3 : Abs(d[k]) > 26000
    \/ Dot(d, d) > limit

\* TrajectoryState::is_similar
IsSimilar_ExactPosition(self, other) ==
    /\ self.weapon_id = other.weapon_id
    /\ ~(Abs(self.throw_strength - other.throw_strength) > 1)
    /\ self.position = other.position
    /\ ~NormSquaredAbove(VSub(self.velocity, other.velocity), (VelScale * VelScale) \div 100)
IsSimilar_AnyPosition(self, other) ==
    /\ self.weapon_id = other.weapon_id
    /\ ~(Abs(self.throw_strength - other.throw_strength) > 1)
    /\ ~NormSquaredAbove(VSub(self.velocity, other.velocity), (VelScale * VelScale) \div 100)
IsSimilar(self, other) ==
    /\ self.weapon_id = other.weapon_id
    /\ ~(Abs(self.throw_strength - other.throw_strength) > 1)
    /\ ~NormSquaredAbove(VSub(self.position, other.position), (PosScale * PosScale) \div 100)
    /\ ~NormSquaredAbove(VSub(self.velocity, other.velocity), (VelScale * VelScale) \div 100)

\* The map files on disk: the triangles MapMesh::load reads for a map name,
\* or None when there is no readable <name>.glb.
MapFile(map_name) ==
    IF map_name = "de_mirage" THEN Some(FloorQuad)
    ELSE IF map_name = "de_nuke" THEN Some(FloorQuad \o WallQuad)
    ELSE None

\* match MapMesh::load(&glb_path)
LoadMap(map_name) ==
    IF IsSome(MapFile(map_name))
    THEN Some(BuildLinearBvh(MapFile(map_name).some, "asc"))
    ELSE None

\* The map loading logic at the head of update().  w.map_state is None when
\* StateCurrentMap does not resolve, else Some(current_map).
FinalMap(self, w) ==
    LET target_map == IF w.selected_map # "Auto" THEN Some(w.selected_map)
                      ELSE IF IsSome(w.map_state) THEN w.map_state.some
                      ELSE None
    IN IF IsSome(target_map) THEN target_map
       ELSE IF ~IsSome(self.current_map_name) THEN Some("de_mirage")
       ELSE None

MapLogic_KeepsMeshOnFailure(self, w) ==
    LET final_map == FinalMap(self, w)
    IN IF IsSome(final_map) /\ final_map.some # "<empty>"
          /\ self.current_map_name # final_map
       THEN [self EXCEPT !.current_map_name = final_map,
                         !.map_mesh = IF IsSome(LoadMap(final_map.some))
                                      THEN LoadMap(final_map.some) ELSE self.map_mesh]
       ELSE self
MapLogic(self, w) ==
    LET final_map == FinalMap(self, w)
    IN IF IsSome(final_map) /\ final_map.some # "<empty>"
          /\ self.current_map_name # final_map
       THEN [self EXCEPT !.current_map_name = final_map,
                         !.map_mesh = LoadMap(final_map.some)]
       ELSE self

DefaultViewOffset == <<0, 0, 64 * PosScale>>

\* The start of the throw: the camera position if the view controller has
\* one, else the eye position, raised by 2.0.
StartPosition(w) ==
    LET view_offset == IF w.fail = "view_offset" THEN DefaultViewOffset ELSE w.view_offset
        eye_position == VAdd(w.pawn_position, view_offset)
        position == IF IsSome(w.camera) THEN w.camera.some ELSE eye_position
    IN <<position[1], position[2], position[3] + 2 * PosScale>>

\* What update() did, next to the fields of self it returns with.
\*   result: "Ok" or "Err";  at: the statement it returned at;
\*   steps, end_position: the simulation ticks run and the position the tick
\*   loop ended at;  state: the TrajectoryState built, if any;
\*   floor_z: the floor height of the simulation;
\*   map: whether the map loading logic ran, the map name it asked for,
\*   whether it switched maps and whether a mesh was loaded before;
\*   idle: in the world of this update the feature is off, no grenade is
\*   equipped or no button is held;  failed: the lookup that failed, or "none".
NoSim == [steps |-> 0, position |-> Zero3]
NoMap == [ran |-> FALSE, final_map |-> None, switched |-> FALSE, had_mesh |-> FALSE]
MapInfo(self, w) ==
    [ran |-> TRUE, final_map |-> FinalMap(self, w),
     switched |-> MapLogic(self, w).current_map_name # self.current_map_name,
     had_mesh |-> IsSome(self.map_mesh)]

Returned(self, w, result, at, sim, state, map) ==
    [self |-> self,
     outcome |-> [result |-> result, at |-> at, steps |-> sim.steps,
                  end_position |-> sim.position, state |-> state,
                  floor_z |-> w.pawn_position[3], map |-> map,
                  idle |-> \/ ~w.enabled
                           \/ w.fail = "weapon"
                           \/ w.wid \notin GrenadeIds
                           \/ (~w.left_click /\ ~w.right_click),
                  failed |-> w.fail]]

\* update() from the weapon lookup on.  s1 is self after the map loading
\* logic.
WithPawn(s1, w, map) ==
    LET s2 == [s1 EXCEPT !.active_type = ActiveTypeOf(w.wid),
                         !.last_logged_wid = Some(w.wid)]
        throw_strength == ThrowStrength(w.left_click, w.right_click)
        floor_z == w.pawn_position[3]
        position == StartPosition(w)
        velocity == w.velocity
        current_state == [position |-> position, velocity |-> velocity,
                          throw_strength |-> throw_strength, weapon_id |-> w.wid]
    IN IF w.fail = "weapon"
       THEN Returned([s1 EXCEPT !.trajectory = None], w, "Ok", "no_weapon", NoSim, None, map)
       ELSE IF w.wid \notin GrenadeIds
       THEN Returned([s1 EXCEPT !.trajectory = None], w, "Ok", "not_grenade", NoSim, None, map)
       ELSE IF ~w.left_click /\ ~w.right_click
       THEN Returned([s2 EXCEPT !.trajectory = None], w, "Ok", "no_click", NoSim, None, map)
       ELSE IF w.fail = "pawn_info"
       THEN Returned(s2, w, "Err", "pawn_info", NoSim, None, map)
       ELSE IF /\ IsSome(s2.last_calc_state)
               /\ IsSimilar(s2.last_calc_state.some, current_state)
               /\ IsSome(s2.trajectory)
       THEN Returned(s2, w, "Ok", "cache_hit", NoSim, Some(current_state), map)
       ELSE Bind(Simulate(s2.map_mesh, s2.active_type, floor_z, position, velocity),
                 LAMBDA sim :
                   Returned([s2 EXCEPT !.trajectory = Some(sim.path),
                                       !.last_calc_state = Some(current_state)],
                            w, "Ok", "computed", sim, Some(current_state), map))

\* update() from the lookups of memory, entity list and local player on.
WithMap(s1, w, map) ==
    IF w.fail \in {"memory", "entities", "controller"}
    THEN Returned(s1, w, "Err", w.fail, NoSim, None, map)
    ELSE IF w.fail \in {"controller_ref", "pawn_handle", "pawn_entity", "pawn_ref"}
    THEN Returned([s1 EXCEPT !.trajectory = None], w, "Ok", w.fail, NoSim, None, map)
    ELSE WithPawn(s1, w, map)

\* GrenadeTrajectory::update, for the fields `self` and the world `w` read
\* through ctx.  w.fail names the one lookup that fails in this update, or is
\* "none".  w.velocity is the value of `velocity` after the throw velocity
\* and 1.25 times the player velocity are added up; the trigonometry that
\* turns the eye angles into a direction is not modelled.
UpdateOf(self, w) ==
    IF w.fail = "settings"
    THEN Returned(self, w, "Err", "settings", NoSim, None, NoMap)
    ELSE IF ~w.enabled
    THEN Returned([self EXCEPT !.trajectory = None], w, "Ok", "disabled", NoSim, None, NoMap)
    ELSE Bind(MapLogic(self, w), LAMBDA s1 : WithMap(s1, w, MapInfo(self, w)))

\* ------------------------------------------------------------------------
\* The worlds update() runs in
\* ------------------------------------------------------------------------
FailPoints == {"settings", "memory", "entities", "controller", "controller_ref",
               "pawn_handle", "pawn_entity", "pawn_ref", "weapon", "pawn_info",
               "view_offset", "eye_angles", "velocity"}

\* What the player holds and does: standing on the floor quad or beside it.
OnFloor == <<3 * PosScale, 3 * PosScale, 0>>
BesideFloor == <<20 * PosScale, 20 * PosScale, 0>>
EyeAbove(p) == VAdd(p, DefaultViewOffset)

Scene(wid, left_click, right_click, pawn_position, camera, velocity) ==
    [wid |-> wid, left_click |-> left_click, right_click |-> right_click,
     pawn_position |-> pawn_position, view_offset |-> DefaultViewOffset,
     camera |-> camera, velocity |-> velocity]

HeThrow == Scene("HZgrenade", TRUE, FALSE, OnFloor, None, <<0, 0, -6000>>)
\* The same throw seen from a camera 1/16 and 1/8 unit off the eye.
HeThrowNear == Scene("HZgrenade", TRUE, FALSE, OnFloor,
                     Some(VAdd(EyeAbove(OnFloor), <<40, 0, 0>>)), <<0, 0, -6000>>)
HeThrowFar == Scene("HZgrenade", TRUE, FALSE, OnFloor,
                    Some(VAdd(EyeAbove(OnFloor), <<80, 0, 0>>)), <<0, 0, -6000>>)
SmokeDrop == Scene("Smokegrenade", FALSE, TRUE, BesideFloor, None, <<0, 0, 0>>)
MolotovThrow == Scene("Molotov", TRUE, TRUE, OnFloor, None, <<0, 0, -3000>>)
KnifeOut == Scene("Knife", TRUE, FALSE, OnFloor, None, <<0, 0, 0>>)
HeHeld == Scene("HZgrenade", FALSE, FALSE, OnFloor, None, <<0, 0, 0>>)

\* A molotov let go slowly towards the wall at x = 6, from a camera close to
\* the wall and one unit above the floor.
MolotovAtWall == Scene("Molotov", TRUE, FALSE, OnFloor,
                       Some(<<6 * PosScale - 100, 3 * PosScale, PosScale>>), <<125, 0, 0>>)

ThrowScenes == {HeThrow, HeThrowNear, HeThrowFar, SmokeDrop, MolotovThrow}
IdleScenes == {KnifeOut, HeHeld}

\* Settings and the map the game reports.
AutoMap(map_state) == [enabled |-> TRUE, selected_map |-> "Auto", map_state |-> map_state]
KeepMap == AutoMap(None)
MapChoices == {KeepMap, AutoMap(Some(None)), AutoMap(Some(Some("de_mirage"))),
               AutoMap(Some(Some("de_dust2"))), AutoMap(Some(Some("<empty>"))),
               [enabled |-> TRUE, selected_map |-> "de_dust2", map_state |-> None]}
Disabled == [enabled |-> FALSE, selected_map |-> "Auto", map_state |-> None]
NukeMap == [enabled |-> TRUE, selected_map |-> "de_nuke", map_state |-> None]

World(scene, settings, fail) ==
    [enabled |-> settings.enabled, selected_map |-> settings.selected_map,
     map_state |-> settings.map_state, fail |-> fail,
     wid |-> scene.wid, left_click |-> scene.left_click,
     right_click |-> scene.right_click, pawn_position |-> scene.pawn_position,
     view_offset |-> scene.view_offset, camera |-> scene.camera,
     velocity |-> scene.velocity]

Worlds ==
    {World(scene, KeepMap, "none") : scene \in ThrowScenes \cup IdleScenes}
    \cup {World(HeThrow, settings, "none") : settings \in MapChoices \cup {Disabled}}
    \cup {World(MolotovAtWall, NukeMap, "none")}
    \cup {World(scene, settings, fail) :
             scene \in {HeThrow, KnifeOut, HeHeld},
             settings \in {KeepMap, AutoMap(Some(Some("de_dust2")))},
             fail \in FailPoints}

TrajInit ==
    /\ MeshInit

\* One frame's update(): main.rs calls update() and then render().
Update(w) ==
    /\ outcome = None
    /\ \E r \in {UpdateOf([trajectory |-> trajectory, active_type |-> active_type,
                           map_mesh |-> map_mesh, current_map_name |-> current_map_name,
                           last_calc_state |-> last_calc_state,
                           last_logged_wid |-> last_logged_wid], w)} :
          /\ trajectory' = r.self.trajectory
          /\ active_type' = r.self.active_type
          /\ map_mesh' = r.self.map_mesh
          /\ current_map_name' = r.self.current_map_name
          /\ last_calc_state' = r.self.last_calc_state
          /\ last_logged_wid' = r.self.last_logged_wid
          /\ outcome' = Some(r.outcome)
          /\ input_state' = r.outcome.state
    /\ UNCHANGED <<drawn, outside_traj>>

\* render() in a frame whose ViewController resolves: the stored path, if
\* there is one and it is not empty, is drawn; the frame is over.
Render ==
    /\ outcome # None
    /\ drawn' = IF IsSome(trajectory) /\ Len(trajectory.some) > 0 THEN trajectory ELSE None
    /\ outcome' = None
    /\ UNCHANGED <<trajectory, active_type, map_mesh, current_map_name, last_calc_state,
                   last_logged_wid, input_state, outside_traj>>

TrajNext ==
    \/ \E w \in Worlds : Update(w)
    \/ Render

TrajSpec == TrajInit /\ [][TrajNext]_vars

\* ========================================================================
\* MapMesh::load from reading the file to parsing it, as a state machine
\* ========================================================================
GlbInit ==
    /\ MeshInit

\* std::fs::read(&path)
ReadFile(f) ==
    /\ load_stage = "start"
    /\ file_bytes' = Some(f)
    /\ read_bytes' = Some(f)
    /\ load_stage' = "read"
    /\ UNCHANGED <<patch, outside_glb>>

\* match Self::patch_glb_json(&mut file_bytes): Ok and Err are logged and
\* load() goes on; a panic unwinds out of load().
PatchGlb ==
    /\ load_stage = "read"
    /\ \E r \in {PatchGlbJson(file_bytes.some)} :
          /\ file_bytes' = Some(r.bytes)
          /\ patch' = Some(r)
          /\ load_stage' = IF r.result = "panic" THEN "panicked" ELSE "patched"
    /\ UNCHANGED <<read_bytes, outside_glb>>

\* gltf::Gltf::from_slice(&file_bytes): the parser of the gltf crate accepts
\* the buffer or load() returns its error.
GltfFromSlice(accepted) ==
    /\ load_stage = "patched"
    /\ load_stage' = IF accepted THEN "parsed" ELSE "failed"
    /\ UNCHANGED <<file_bytes, read_bytes, patch, outside_glb>>

GlbNext ==
    \/ \E f \in GlbFiles : ReadFile(f)
    \/ PatchGlb
    \/ \E accepted \in BOOLEAN : GltfFromSlice(accepted)

GlbSpec == GlbInit /\ [][GlbNext]_vars

\* ========================================================================
\* Render calls that share one CharacterModel, as a state machine
\* ========================================================================
BoneInit ==
    /\ MeshInit

\* CharacterModel::load: the mesh is read and the set of logged bones is
\* empty.
LoadModel(mesh) ==
    /\ model = None
    /\ model' = Some(mesh)
    /\ UNCHANGED <<missing_bones_logged, lock_holder, calls, times_recorded, outside_bone>>

\* The joint the call is at in its walk of joint_map, and its bone name.
JointOf(c) == model.some.order[calls[c].next]
BoneOf(c) == model.some.joint_map[JointOf(c)]

\* The call's state after the joint at hand got `matrix`: the walk goes on,
\* or the skinning is next, or the assignment has panicked.
Assigned(c, matrix) ==
    LET set == SetJointMatrix(calls[c].joint_matrices, JointOf(c), matrix)
    IN IF set = None THEN [calls[c] EXCEPT !.pc = "panicked"]
       ELSE [calls[c] EXCEPT !.joint_matrices = set.some,
                             !.next = @ + 1,
                             !.pc = IF calls[c].next < Len(model.some.order)
                                    THEN "joint" ELSE "skin"]

\* render() is entered: joint_matrices is allocated, one identity per
\* inverse bind matrix.
BeginRender(c, bone_transforms) ==
    /\ IsSome(model)
    /\ calls[c].pc = "idle"
    /\ calls' = [calls EXCEPT ![c] =
           [pc |-> IF Len(model.some.order) > 0 THEN "joint" ELSE "skin",
            bone_transforms |-> bone_transforms,
            next |-> 1,
            joint_matrices |-> [i \in 1..Len(model.some.inverse_bind_matrices) |-> Identity4],
            skipped |-> {},
            skinned |-> None]]
    /\ UNCHANGED <<model, missing_bones_logged, lock_holder, times_recorded, outside_bone>>

\* The bone of the joint at hand is in bone_transforms.
JointPresent(c) ==
    /\ calls[c].pc = "joint"
    /\ BoneOf(c) \in DOMAIN calls[c].bone_transforms
    /\ calls' = [calls EXCEPT ![c] =
           Assigned(c, MatMul(calls[c].bone_transforms[BoneOf(c)],
                              InverseBind(model.some, JointOf(c))))]
    /\ UNCHANGED <<model, missing_bones_logged, lock_holder, times_recorded, outside_bone>>

\* The bone is missing: self.missing_bones_logged.try_lock() takes the lock
\* or, the lock being held, fails at once.
TryLock(c) ==
    /\ calls[c].pc = "joint"
    /\ BoneOf(c) \notin DOMAIN calls[c].bone_transforms
    /\ IF lock_holder = 0
       THEN /\ lock_holder' = c
            /\ calls' = [calls EXCEPT ![c].pc = "locked"]
       ELSE /\ lock_holder' = lock_holder
            /\ calls' = [calls EXCEPT ![c].pc = "assign",
                                      ![c].skipped = @ \cup {BoneOf(c)}]
    /\ UNCHANGED <<model, missing_bones_logged, times_recorded, outside_bone>>

\* With the lock: the name is inserted unless the set has it, and the guard
\* is dropped.
RecordMissing(c) ==
    /\ calls[c].pc = "locked"
    /\ IF BoneOf(c) \notin missing_bones_logged
       THEN /\ missing_bones_logged' = missing_bones_logged \cup {BoneOf(c)}
            /\ times_recorded' = [times_recorded EXCEPT ![BoneOf(c)] = @ + 1]
       ELSE UNCHANGED <<missing_bones_logged, times_recorded>>
    /\ lock_holder' = 0
    /\ calls' = [calls EXCEPT ![c].pc = "assign"]
    /\ UNCHANGED <<model, outside_bone>>

\* joint_matrices[joint_idx] = fallback_transform * ibm
AssignFallback(c) ==
    /\ calls[c].pc = "assign"
    /\ calls' = [calls EXCEPT ![c] =
           Assigned(c, MatMul(FallbackTransform(calls[c].bone_transforms),
                              InverseBind(model.some, JointOf(c))))]
    /\ UNCHANGED <<model, missing_bones_logged, lock_holder, times_recorded, outside_bone>>

\* The skinning loop and the triangle assembly over its result; the call
\* returns after them.
Skin(c) ==
    /\ calls[c].pc = "skin"
    /\ \E skinned \in {Skinning(calls[c].joint_matrices, model.some.vertices)} :
          calls' = [calls EXCEPT ![c].pc =
                                    IF skinned = None THEN "panicked"
                                    ELSE IF TriangleAssembly(model.some.indices,
                                                             skinned.some) = None
                                    THEN "panicked" ELSE "idle",
                                 ![c].skinned = skinned]
    /\ UNCHANGED <<model, missing_bones_logged, lock_holder, times_recorded, outside_bone>>

BoneNext ==
    \/ \E mesh \in Rigs : LoadModel(mesh)
    \/ \E c \in Calls, bone_transforms \in Poses : BeginRender(c, bone_transforms)
    \/ \E c \in Calls : JointPresent(c)
    \/ \E c \in Calls : TryLock(c)
    \/ \E c \in Calls : RecordMissing(c)
    \/ \E c \in Calls : AssignFallback(c)
    \/ \E c \in Calls : Skin(c)

BoneSpec == BoneInit /\ [][BoneNext]_vars

\* ========================================================================
\* CharacterModel::load naming the joints of the skin, as a state machine
\* ========================================================================
NameInit ==
    /\ MeshInit

\* One turn of `for (joint_idx, joint_node) in skin.joints().enumerate()` for
\* a joint node that has a name.
NameJoint(name) ==
    /\ joint_name' = Some([raw |-> name, normalized |-> NormalizeBoneName(name)])
    /\ UNCHANGED outside_name

NameNext == \E name \in JointNames : NameJoint(name)

NameSpec == NameInit /\ [][NameNext]_vars

\* ========================================================================
\* Properties of the collision mesh
\* ========================================================================
\* The nodes of the tree: every index reached from `idx` by following
\* left child = index + 1 and right child = offset, at most `fuel` deep.
RECURSIVE TreeNodes(_, _, _)
TreeNodes(nodes, idx, fuel) ==
    IF fuel = 0 \/ idx >= Len(nodes) THEN {}
    ELSE IF nodes[idx + 1].count > 0 THEN {idx}
    ELSE {idx} \cup TreeNodes(nodes, idx + 1, fuel - 1)
               \cup TreeNodes(nodes, nodes[idx + 1].offset, fuel - 1)

TreeLeaves(m) ==
    {i \in TreeNodes(m.nodes, 0, Len(m.nodes)) : m.nodes[i + 1].count > 0}

\* The visits of triangle-array positions made by walking every leaf range:
\* pairs <<leaf, position>>, positions 0-based.
LeafVisits(m) ==
    {<<i, j>> \in TreeLeaves(m) \X (0..(Len(m.triangles) + LeafSize)) :
        /\ j >= m.nodes[i + 1].offset
        /\ j < m.nodes[i + 1].offset + m.nodes[i + 1].count}

Occurrences(seq, t) == Cardinality({k \in 1..Len(seq) : seq[k] = t})

Contains(outer, inner) ==
    \A k \in 1..3 : outer.min[k] <= inner.min[k] /\ inner.max[k] <= outer.max[k]
ContainsPoint(box, p) ==
    \A k \in 1..3 : box.min[k] <= p[k] /\ p[k] <= box.max[k]

\* C1: the triangles reached through the (offset, count) ranges of all
\* leaves of a built tree are the input triangles as a multiset: every leaf
\* range lies inside the reordered array, and every triangle is visited
\* exactly as many times as it occurs in the input.
C1_LeafCoverage ==
    IsSome(loaded) =>
        LET m == loaded.some
            visits == LeafVisits(m)
        IN /\ \A v \in visits : v[2] < Len(m.triangles)
           /\ Len(m.triangles) = Len(raw_triangles)
           /\ \A k \in 1..Len(raw_triangles) :
                 Cardinality({v \in visits : m.triangles[v[2] + 1] = raw_triangles[k]})
                    = Occurrences(raw_triangles, raw_triangles[k])
           /\ Cardinality(visits) = Len(raw_triangles)

\* A tree with two levels of branches built over an input that holds the
\* same triangle more than once.
C1_Witness ==
    /\ IsSome(loaded)
    /\ Len(loaded.some.nodes) >= 5
    /\ \E k \in 1..Len(raw_triangles) : Occurrences(raw_triangles, raw_triangles[k]) >= 2

\* C2: in a built tree the box of every branch contains the boxes of
\* both children (left at index + 1, right at offset) and the box of every
\* leaf contains the three vertices of every triangle of its range.
C2_Bounding ==
    IsSome(loaded) =>
        LET m == loaded.some
        IN \A i \in 0..(Len(m.nodes) - 1) :
              LET node == m.nodes[i + 1]
              IN IF node.count = 0
                 THEN /\ i + 1 < Len(m.nodes) /\ node.offset < Len(m.nodes)
                      /\ Contains(node.aabb, m.nodes[i + 2].aabb)
                      /\ Contains(node.aabb, m.nodes[node.offset + 1].aabb)
                 ELSE \A j \in (node.offset + 1)..(node.offset + node.count) :
                         /\ ContainsPoint(node.aabb, m.triangles[j].v0)
                         /\ ContainsPoint(node.aabb, m.triangles[j].v1)
                         /\ ContainsPoint(node.aabb, m.triangles[j].v2)

\* A tree with a branch above a branch above a leaf of several triangles.
C2_Witness ==
    /\ IsSome(loaded)
    /\ \E i \in 0..(Len(loaded.some.nodes) - 3) :
          /\ loaded.some.nodes[i + 1].count = 0
          /\ loaded.some.nodes[i + 2].count = 0
          /\ loaded.some.nodes[i + 3].count >= 2

\* The scan of all triangles without the tree: the smallest hit fraction of
\* the segment over all triangles, or None.
BruteForceHits(triangles, start, end) ==
    LET dir == VSub(end, start)
        len == RayLen(dir)
        fresh == [closest_dist |-> <<len, 1>>, closest_hit |-> None]
    IN IF dir = Zero3 THEN {}
       ELSE {h \in {TestTriangle(triangles[j], start, DirNorm(dir), len, fresh).closest_hit :
                       j \in 1..Len(triangles)} : IsSome(h)}

BruteForceFraction(triangles, start, end) ==
    LET hits == BruteForceHits(triangles, start, end)
    IN IF hits = {} THEN None
       ELSE Some((CHOOSE h \in hits :
                     \A g \in hits : RLe(h.some.fraction, g.some.fraction)).some.fraction)

\* C3: a single-ray query reports the nearest front-facing intersection
\* of the segment, as a scan of all triangles does, and None exactly when
\* the scan finds none.
C3_RayMatchesBruteForce ==
    (IsSome(loaded) /\ IsSome(ray)) =>
        LET brute == BruteForceFraction(loaded.some.triangles, ray.some.start, ray.some.end)
        IN IF IsSome(ray_hit) THEN brute = Some(ray_hit.some.fraction)
           ELSE brute = None

\* C14: a capsule query of radius 0 returns what the single-ray query
\* returns on the same segment: the same None or Some, with the same
\* fraction, hit position and normal.
C14_CapsuleRadiusZeroIsRay ==
    (IsSome(loaded) /\ IsSome(capsule) /\ capsule.some.radius = 0) =>
        capsule.some.hit =
            CheckCollisionRay(loaded.some, capsule.some.start, capsule.some.end)

\* A capsule query of radius 0 that hit a triangle.
C14_Witness ==
    /\ IsSome(loaded) /\ IsSome(capsule)
    /\ capsule.some.radius = 0
    /\ IsSome(capsule.some.hit)

\* C15: collision is single-sided.  The normal of every hit reported by
\* a single-ray query does not point along the ray (direction . normal <= 0),
\* and the hit lies on a triangle of the mesh that faces the ray: a triangle
\* met from its back side is never the one reported.
C15_SingleSided ==
    (IsSome(loaded) /\ IsSome(ray) /\ IsSome(ray_hit)) =>
        LET start == ray.some.start
            dir == VSub(ray.some.end, start)
            fresh == [closest_dist |-> <<RayLen(dir), 1>>, closest_hit |-> None]
        IN /\ Dot(dir, ray_hit.some.normal) <= 0
           /\ \E j \in 1..Len(loaded.some.triangles) :
                 LET tri == loaded.some.triangles[j]
                     on_tri == TestTriangle(tri, start, DirNorm(dir), RayLen(dir),
                                            fresh).closest_hit
                 IN /\ Dot(dir, tri.normal) <= 0
                    /\ tri.normal = ray_hit.some.normal
                    /\ IsSome(on_tri)
                    /\ on_tri.some.fraction = ray_hit.some.fraction

\* The floor alone, and a segment that crosses it from below: no hit.
C15_Witness ==
    /\ IsSome(loaded)
    /\ raw_triangles = FloorQuad
    /\ ray = Some([start |-> VScale(<<3, 3, -2>>, PosScale),
                   end |-> VScale(<<3, 3, 5>>, PosScale)])
    /\ ray_hit = None

\* C16: a map file with zero triangles loads without error into an empty
\* triangle array and an empty node array, and every collision query against
\* that mesh returns None.
C16_EmptyInput ==
    (IsSome(loaded) /\ raw_triangles = <<>>) =>
        /\ loaded.some.triangles = <<>>
        /\ loaded.some.nodes = <<>>
        /\ IsSome(ray) => ray_hit = None
        /\ IsSome(capsule) => capsule.some.hit = None

\* A segment queried against the mesh loaded from zero triangles.
C16_Witness ==
    /\ IsSome(loaded)
    /\ raw_triangles = <<>>
    /\ IsSome(ray)

\* The vertices of the triangles in the subtree of node idx.
SubtreeVertices(m, idx) ==
    UNION {{m.triangles[j].v0, m.triangles[j].v1, m.triangles[j].v2} :
              j \in {v[2] + 1 : v \in {w \in LeafVisits(m) :
                                          w[1] \in TreeNodes(m.nodes, idx, Len(m.nodes))}}}

SetMin(S) == CHOOSE x \in S : \A y \in S : x <= y
SetMax(S) == CHOOSE x \in S : \A y \in S : x >= y

\* C17: the box of every node is the exact bound of its subtree: min and
\* max are the component-wise minimum and maximum over the vertices of the
\* subtree's triangles.  A tree built over one triangle is one leaf with
\* offset 0 and count 1 whose box is the triangle's bounding box.
C17_ExactBounds ==
    IsSome(loaded) =>
        LET m == loaded.some
        IN /\ \A i \in 0..(Len(m.nodes) - 1) :
                 \E vs \in {SubtreeVertices(m, i)} :
                    /\ vs # {}
                    /\ \A k \in 1..3 :
                          /\ m.nodes[i + 1].aabb.min[k] = SetMin({p[k] : p \in vs})
                          /\ m.nodes[i + 1].aabb.max[k] = SetMax({p[k] : p \in vs})
           /\ Len(raw_triangles) = 1 =>
                 LET t == raw_triangles[1]
                     ps == {t.v0, t.v1, t.v2}
                 IN /\ m.triangles = raw_triangles
                    /\ m.nodes = <<LinearNode(
                          [min |-> <<SetMin({p[1] : p \in ps}), SetMin({p[2] : p \in ps}),
                                     SetMin({p[3] : p \in ps})>>,
                           max |-> <<SetMax({p[1] : p \in ps}), SetMax({p[2] : p \in ps}),
                                     SetMax({p[3] : p \in ps})>>], 0, 1)>>

\* The tree built over a single triangle.
C17_Witness ==
    /\ IsSome(loaded)
    /\ Len(raw_triangles) = 1
    /\ Len(loaded.some.nodes) = 1

\* The number of nodes of the subtree laid out from index idx on, when the
\* left subtree starts at idx + 1 and the right one follows it.
RECURSIVE SubtreeSize(_, _, _)
SubtreeSize(nodes, idx, fuel) ==
    IF fuel = 0 \/ idx >= Len(nodes) THEN 0
    ELSE IF nodes[idx + 1].count > 0 THEN 1
    ELSE LET left == SubtreeSize(nodes, idx + 1, fuel - 1)
         IN 1 + left + SubtreeSize(nodes, idx + 1 + left, fuel - 1)

RECURSIVE SumCounts(_, _)
SumCounts(nodes, n) ==
    IF n = 0 THEN 0 ELSE SumCounts(nodes, n - 1) + nodes[n].count

\* The build tree `node` is laid out at index idx of the arrays of m: a
\* branch with its left subtree at idx + 1 and its right subtree at offset,
\* a leaf with its triangles in its range.
RECURSIVE LaidOutAt(_, _, _, _)
LaidOutAt(node, m, idx, original_tris) ==
    /\ idx < Len(m.nodes)
    /\ m.nodes[idx + 1].aabb = node.aabb
    /\ IF IsSome(node.left) /\ IsSome(node.right)
       THEN /\ m.nodes[idx + 1].count = 0
            /\ LaidOutAt(node.left.some, m, idx + 1, original_tris)
            /\ LaidOutAt(node.right.some, m, m.nodes[idx + 1].offset, original_tris)
       ELSE /\ m.nodes[idx + 1].count = Len(node.triangle_indices)
            /\ m.nodes[idx + 1].offset + m.nodes[idx + 1].count <= Len(m.triangles)
            /\ \A i \in 1..Len(node.triangle_indices) :
                  m.triangles[m.nodes[idx + 1].offset + i] =
                      original_tris[node.triangle_indices[i]]

\* C20: the node array is the depth-first pre-order layout of the build
\* tree.  Node 0 is the root; the left child of a branch at index N is node
\* N + 1 and its offset is the index of the right child, N + 1 + the size of
\* the left subtree, a valid index above N + 1; the leaves in array order
\* have offsets 0, count_1, count_1 + count_2, ..., so their ranges tile the
\* triangle array.
C20_PreOrderLayout ==
    (IsSome(loaded) /\ raw_triangles # <<>>) =>
        LET m == loaded.some
            n == Len(m.nodes)
        IN /\ n > 0
           /\ SubtreeSize(m.nodes, 0, n) = n
           /\ \A i \in 0..(n - 1) :
                 IF m.nodes[i + 1].count = 0
                 THEN /\ i + 1 < n
                      /\ m.nodes[i + 1].offset > i + 1
                      /\ m.nodes[i + 1].offset < n
                      /\ m.nodes[i + 1].offset = i + 1 + SubtreeSize(m.nodes, i + 1, n)
                 ELSE m.nodes[i + 1].offset = SumCounts(m.nodes, i)
           /\ SumCounts(m.nodes, n) = Len(m.triangles)
           /\ \E policy \in SelectPolicies :
                 \E root \in {RecursiveBuild(raw_triangles,
                                             [i \in 1..Len(raw_triangles) |-> i], policy)} :
                    LaidOutAt(root, m, 0, raw_triangles)

\* A tree whose root has a branch as its left child and a branch as its
\* right child.
C20_Witness ==
    /\ IsSome(loaded)
    /\ Len(loaded.some.nodes) >= 7
    /\ loaded.some.nodes[1].count = 0
    /\ loaded.some.nodes[2].count = 0
    /\ loaded.some.nodes[loaded.some.nodes[1].offset + 1].count = 0

\* The branch nodes of a built tree: the nodes recursive_build split.
TreeBranches(m) ==
    {i \in TreeNodes(m.nodes, 0, Len(m.nodes)) : m.nodes[i + 1].count = 0}

Extent(aabb) == VSub(aabb.max, aabb.min)

\* C21: the axis along which a node is split has the greatest extent of
\* the node's AABB, and among axes that tie for the greatest extent it is the
\* earliest in the order x, y, z.
C21_SplitAxisEarliestGreatest ==
    IsSome(loaded) =>
        \A i \in TreeBranches(loaded.some) :
            LET extent == Extent(loaded.some.nodes[i + 1].aabb)
                axis == SplitAxis(loaded.some.nodes[i + 1].aabb)
            IN /\ \A k \in 1..3 : extent[k] <= extent[axis]
               /\ \A k \in 1..(axis - 1) : extent[k] < extent[axis]

\* The subtree below node `idx` of the loaded tree.
Subtree(idx) == TreeNodes(loaded.some.nodes, idx, Len(loaded.some.nodes))

\* C22: in a traversal, every branch that passes the AABB test has both
\* children pushed, the right child (offset) first and the left child
\* (index + 1) on top of it: the left child is the next node popped, every
\* node popped before the right child belongs to the left subtree and none of
\* the left subtree is popped after it, and when the traversal ends both
\* children of every such branch have been popped.
C22_RightPushedThenLeft ==
    walk # None =>
        \A a \in 1..Len(walk.popped) :
            LET i == walk.popped[a]
                right == loaded.some.nodes[i + 1].offset
                n == Len(walk.popped)
            IN i \in walk.entered =>
                /\ IF a = n
                   THEN /\ Len(walk.stack) >= 2
                        /\ walk.stack[Len(walk.stack)] = i + 1
                        /\ walk.stack[Len(walk.stack) - 1] = right
                   ELSE walk.popped[a + 1] = i + 1
                /\ \A b \in (a + 1)..n :
                      walk.popped[b] = right =>
                          /\ \A c \in (a + 1)..(b - 1) : walk.popped[c] \in Subtree(i + 1)
                          /\ \A c \in (b + 1)..n : walk.popped[c] \notin Subtree(i + 1)
                /\ walk.stack = <<>> =>
                      /\ \E b \in (a + 1)..n : walk.popped[b] = i + 1
                      /\ \E b \in (a + 1)..n : walk.popped[b] = right

\* A finished traversal that entered the root and a branch below it and went
\* on into the root's right child.
C22_Witness ==
    /\ walk # None
    /\ walk.stack = <<>>
    /\ Cardinality(walk.entered) >= 2
    /\ \E b \in 1..Len(walk.popped) :
          /\ walk.popped[b] = loaded.some.nodes[1].offset
          /\ b > 2

\* The depth of the tree below node `idx`: 0 for a leaf.
RECURSIVE TreeDepth(_, _, _)
TreeDepth(nodes, idx, fuel) ==
    IF fuel = 0 \/ idx >= Len(nodes) \/ nodes[idx + 1].count > 0 THEN 0
    ELSE 1 + Max2(TreeDepth(nodes, idx + 1, fuel - 1),
                  TreeDepth(nodes, nodes[idx + 1].offset, fuel - 1))

\* 2 to the power k.
RECURSIVE Pow2(_)
Pow2(k) == IF k = 0 THEN 1 ELSE 2 * Pow2(k - 1)

\* C27: the 64-slot stack suffices for every built tree.  In every turn
\* of the traversal loop the live entries fit in slots 0..63 and number at
\* most the depth of the tree plus one; a branch that passes the AABB test is
\* met with the stack pointer below 63 and leaves both children on the stack;
\* and the depth is logarithmic in the triangle count: a tree of depth d > 0
\* holds more than 8 * 2^(d-1) triangles.
C27_StackSuffices ==
    [][walk' # None =>
          LET depth == TreeDepth(loaded'.some.nodes, 0, Len(loaded'.some.nodes))
          IN /\ Len(walk'.stack) <= StackSize
             /\ Len(walk'.stack) <= depth + 1
             /\ depth > 0 => LeafSize * Pow2(depth - 1) < Len(loaded'.some.triangles)
             /\ (walk # None /\ walk.stack # <<>> /\ walk'.entered # walk.entered) =>
                   /\ Len(walk.stack) - 1 < 63
                   /\ Len(walk'.stack) = Len(walk.stack) + 1
                   /\ {walk'.stack[Len(walk'.stack)], walk'.stack[Len(walk'.stack) - 1]}
                         \cap Subtree(walk.stack[Len(walk.stack)]) # {}]_vars

\* A traversal three entries deep: a branch below the root was entered while
\* the root's right child was pending.
C27_Witness ==
    /\ walk # None
    /\ Len(walk.stack) >= 3
    /\ Cardinality(walk.entered) >= 2

\* The number of triangles a node covers: the counts of the leaves below it.
RECURSIVE Covers(_, _, _)
Covers(nodes, idx, fuel) ==
    IF fuel = 0 \/ idx >= Len(nodes) THEN 0
    ELSE IF nodes[idx + 1].count > 0 THEN nodes[idx + 1].count
    ELSE Covers(nodes, idx + 1, fuel - 1)
         + Covers(nodes, nodes[idx + 1].offset, fuel - 1)

\* C23: every leaf of a built tree holds at most 8 triangles, and every
\* node that covers more than 8 triangles is a branch split at the median
\* index: its left child covers floor(n / 2) of its n triangles and its right
\* child the rest.
C23_LeavesSmallSplitsAtMedian ==
    IsSome(loaded) =>
        LET nodes == loaded.some.nodes
            fuel == Len(nodes)
        IN \A i \in TreeNodes(nodes, 0, fuel) :
              LET n == Covers(nodes, i, fuel)
              IN IF nodes[i + 1].count > 0
                 THEN nodes[i + 1].count <= 8
                 ELSE /\ n > 8
                      /\ Covers(nodes, i + 1, fuel) = n \div 2
                      /\ Covers(nodes, nodes[i + 1].offset, fuel) = n - (n \div 2)

\* A tree whose root covers an odd number of triangles above 8 and has a
\* branch among its children.
C23_Witness ==
    /\ IsSome(loaded)
    /\ Len(loaded.some.triangles) > 8
    /\ Len(loaded.some.triangles) % 2 = 1
    /\ Len(loaded.some.nodes) >= 5

\* The lengths of the leaves of a build tree, and the number of its branches.
RECURSIVE LeafLens(_)
LeafLens(node) ==
    IF IsSome(node.left) /\ IsSome(node.right)
    THEN LeafLens(node.left.some) \cup LeafLens(node.right.some)
    ELSE {Len(node.triangle_indices)}

RECURSIVE BranchCount(_)
BranchCount(node) ==
    IF IsSome(node.left) /\ IsSome(node.right)
    THEN 1 + BranchCount(node.left.some) + BranchCount(node.right.some)
    ELSE 0

\* C28: the leaf/branch tag is never ambiguous.  For a non-empty input
\* every leaf that recursive_build returns holds 1 to 8 triangles, at least 4
\* when it comes from a split, so that flatten writes count = 0 for the
\* branches only; every node with count = 0 has index + 1 and offset inside
\* the node array, and every leaf range offset..offset + count lies inside the
\* triangle array.
C28_TagUnambiguous ==
    (IsSome(loaded) /\ raw_triangles # <<>>) =>
        LET m == loaded.some
            n == Len(m.nodes)
        IN \E policy \in SelectPolicies :
              \E root \in {RecursiveBuild(raw_triangles,
                                          [i \in 1..Len(raw_triangles) |-> i], policy)} :
                 /\ LaidOutAt(root, m, 0, raw_triangles)
                 /\ \A len \in LeafLens(root) :
                       /\ 1 <= len /\ len <= 8
                       /\ BranchCount(root) > 0 => len >= 4
                 /\ Cardinality({i \in 0..(n - 1) : m.nodes[i + 1].count = 0})
                       = BranchCount(root)
                 /\ \A i \in 0..(n - 1) :
                       IF m.nodes[i + 1].count = 0
                       THEN /\ i + 1 < n
                            /\ m.nodes[i + 1].offset > i
                            /\ m.nodes[i + 1].offset < n
                       ELSE /\ 1 <= m.nodes[i + 1].count /\ m.nodes[i + 1].count <= 8
                            /\ m.nodes[i + 1].offset + m.nodes[i + 1].count
                                  <= Len(m.triangles)

\* A tree with branches and a leaf of 4 triangles, the least a split leaves.
C28_Witness ==
    /\ IsSome(loaded)
    /\ raw_triangles # <<>>
    /\ Len(loaded.some.nodes) >= 3
    /\ \E i \in 1..Len(loaded.some.nodes) : loaded.some.nodes[i].count = 4

\* ========================================================================
\* Properties of the trajectory preview
\* ========================================================================
\* A step of update(): a frame begins.
UpdateStep == outcome = None /\ outcome' # None

\* The similarity tolerance as stated: same weapon id, throw strength within
\* 0.01, squared position and velocity differences not above 0.01.
WithinTolerance(a, b) ==
    /\ a.weapon_id = b.weapon_id
    /\ Abs(a.throw_strength - b.throw_strength) <= 1
    /\ \A k \in 1..3 : Abs(a.position[k] - b.position[k]) <= PosScale
    /\ Dot(VSub(a.position, b.position), VSub(a.position, b.position)) * 100
          <= PosScale * PosScale
    /\ \A k \in 1..3 : Abs(a.velocity[k] - b.velocity[k]) <= VelScale
    /\ Dot(VSub(a.velocity, b.velocity), VSub(a.velocity, b.velocity)) * 100
          <= VelScale * VelScale

\* The update left the stored path and the cache key alone and ran no tick.
CacheHitStep ==
    /\ outcome'.some.at = "cache_hit"
    /\ outcome'.some.steps = 0
    /\ trajectory' = trajectory
    /\ last_calc_state' = last_calc_state

\* C4: an update that reaches the cache check with a state outside the
\* tolerance of last_calc_state (or with no last_calc_state) simulates anew
\* from the current state and stores it as last_calc_state; the stored path
\* is reused only when the state is within the tolerance.
C4_ChangedThrowRecomputed ==
    [][(UpdateStep /\ IsSome(outcome'.some.state)) =>
          LET cs == outcome'.some.state.some
              changed == \/ ~IsSome(last_calc_state)
                         \/ ~WithinTolerance(last_calc_state.some, cs)
          IN /\ changed => /\ outcome'.some.at = "computed"
                           /\ outcome'.some.steps >= 1
                           /\ last_calc_state' = Some(cs)
                           /\ IsSome(trajectory')
                           /\ trajectory'.some[1] = cs.position
             /\ outcome'.some.at = "cache_hit" =>
                   ~changed /\ IsSome(trajectory) /\ trajectory' = trajectory]_vars

\* An update simulated a path that starts elsewhere than the path drawn in
\* the frame before.
C4_Witness ==
    /\ IsSome(outcome) /\ outcome.some.at = "computed"
    /\ IsSome(drawn) /\ IsSome(trajectory)
    /\ drawn.some[1] # trajectory.some[1]

\* C5 as stated: when two updates in a row build states within the
\* tolerance of each other, the second is a cache hit.
C5_TwiceInARowIsHit ==
    [][(/\ UpdateStep /\ IsSome(input_state) /\ IsSome(input_state')
        /\ WithinTolerance(input_state.some, input_state'.some))
          => CacheHitStep]_vars

\* C5: when two updates in a row build states and the second state is
\* identical to the first, or within the tolerance of last_calc_state (the
\* state the stored path was simulated from), the second update is a cache
\* hit: path and last_calc_state stay and no tick runs.
C5_HitAgainstLastComputed ==
    [][(/\ UpdateStep /\ IsSome(input_state) /\ IsSome(input_state')
        /\ \/ input_state' = input_state
           \/ /\ IsSome(last_calc_state)
              /\ WithinTolerance(last_calc_state.some, input_state'.some))
          => CacheHitStep]_vars

\* A cache hit on a state that is not the one the path was simulated from.
C5_Witness ==
    /\ IsSome(outcome) /\ outcome.some.at = "cache_hit"
    /\ IsSome(input_state) /\ IsSome(last_calc_state)
    /\ input_state # last_calc_state
    /\ WithinTolerance(last_calc_state.some, input_state.some)

\* C6: after an update in which a lookup of the world state failed
\* (memory view, entity list, local controller, pawn, weapon, pawn info, eye
\* angles, velocity) there is no stored path.
C6_LookupFailureIsIdle ==
    (/\ IsSome(outcome)
     /\ outcome.some.failed \in {"memory", "entities", "controller", "controller_ref",
                                 "pawn_handle", "pawn_entity", "pawn_ref", "weapon",
                                 "pawn_info", "eye_angles", "velocity"})
        => trajectory = None

\* C7: a path simulated for a kind with a detonation timer has at most
\* ceil(timer / tick) + 1 points.
C7_PathBound ==
    (/\ IsSome(trajectory) /\ IsSome(last_calc_state)
     /\ IsSome(GetDetonationTime(ActiveTypeOf(last_calc_state.some.weapon_id))))
        => Len(trajectory.some)
              <= (GetDetonationTime(ActiveTypeOf(last_calc_state.some.weapon_id)).some
                     * TicksPerSecond + 9) \div 10 + 1

\* C8: a simulation without any hit records no point below
\* floor_z - 1000 and runs no tick after the one that ends below it: the loop
\* has ended below the limit, at the detonation time or after 130 ticks.
C8_FallTerminates ==
    (/\ IsSome(outcome) /\ outcome.some.at = "computed"
     /\ Len(trajectory.some) = outcome.some.steps)
        => LET limit == outcome.some.floor_z - 1000 * PosScale
               det == GetDetonationTime(active_type)
           IN /\ \A i \in 1..Len(trajectory.some) : trajectory.some[i][3] >= limit
              /\ \/ outcome.some.end_position[3] < limit
                 \/ outcome.some.steps = 130
                 \/ IsSome(det) /\ outcome.some.steps * 10 >= det.some * TicksPerSecond

\* A free fall that the floor limit ended before the 130th tick.
C8_Witness ==
    /\ IsSome(outcome) /\ outcome.some.at = "computed"
    /\ Len(trajectory.some) = outcome.some.steps
    /\ outcome.some.steps < 130
    /\ outcome.some.end_position[3] < outcome.some.floor_z - 1000 * PosScale

\* C9: after an update in whose world the feature is disabled, no
\* grenade is equipped or no throw button is held, there is no stored path.
C9_IdleWhenConditionsNotMet ==
    (IsSome(outcome) /\ outcome.some.idle) => trajectory = None

Reflected(velocity, normal) ==
    LET along == Quot(Dot(velocity, normal), NormalScale)
        velocity_normal == <<Quot(normal[1] * along, NormalScale),
                             Quot(normal[2] * along, NormalScale),
                             Quot(normal[3] * along, NormalScale)>>
    IN [k \in 1..3 |-> Quot(velocity_normal[k] * (-ELASTICITY), 100)
                       + Quot((velocity[k] - velocity_normal[k]) * FRICTION, 100)]

\* The iteration that takes the loop state st to `next` keeps the rule for
\* hits, if its trace hits.
HitRule(mesh, kind, floor_z, st, next) ==
    LET det == GetDetonationTime(kind)
        velocity == <<st.velocity[1], st.velocity[2],
                      st.velocity[3] - (SV_GRAVITY * VelScale) \div TicksPerSecond>>
        trace == TraceRay(mesh, st.position, VAdd(st.position, velocity))
    IN (/\ ~(IsSome(det) /\ (st.accumulated_time + 1) * 10 >= det.some * TicksPerSecond)
        /\ trace.did_hit)
          => /\ next.path = st.path \o <<st.position, trace.end_pos>>
             /\ IF kind = "Molotov" /\ trace.plane_normal[3] * 10 > 7 * NormalScale
                THEN /\ next.done
                     /\ next.position = trace.end_pos
                     /\ next.velocity = velocity
                ELSE /\ next.velocity = Reflected(velocity, trace.plane_normal)
                     /\ next.done <=>
                           \/ Dot(next.velocity, next.velocity) < 100 * VelScale * VelScale
                           \/ next.position[3] < floor_z - 1000 * PosScale

\* HitRule in each of the next n iterations of the loop from st on.
RECURSIVE HitRuleFrom(_, _, _, _, _)
HitRuleFrom(mesh, kind, floor_z, st, n) ==
    IF st.done \/ n = 0 THEN TRUE
    ELSE IF n = 1
    THEN \E next \in {Step(mesh, kind, floor_z, st)} : HitRule(mesh, kind, floor_z, st, next)
    ELSE /\ HitRuleFrom(mesh, kind, floor_z, st, n \div 2)
         /\ \E half \in {RunSteps(mesh, kind, floor_z, st, n \div 2)} :
               HitRuleFrom(mesh, kind, floor_z, half, n - n \div 2)

\* The number of hits of a computed path: every iteration pushes one point and
\* every hit one more.
Hits == Len(trajectory.some) - outcome.some.steps

\* C24: in the simulation of a computed path every hit appends the hit
\* position to the path.  A hit of a Molotov (molotov or incendiary) on a
\* surface whose normal has a vertical component above 0.7 ends the simulation
\* there, the hit point being the last path point and the velocity not
\* reflected; any other hit reflects the velocity, and the simulation goes on
\* unless the squared speed is then below 100 (or the fall limit of the same
\* iteration is passed).
C24_HitHandling ==
    (IsSome(outcome) /\ outcome.some.at = "computed") =>
        LET cs == outcome.some.state.some
            start == [path |-> <<>>, position |-> cs.position, velocity |-> cs.velocity,
                      accumulated_time |-> 0, steps |-> 0, done |-> FALSE]
        IN /\ HitRuleFrom(map_mesh, active_type, outcome.some.floor_z, start, MaxSteps)
           /\ trajectory.some =
                 Simulate(map_mesh, active_type, outcome.some.floor_z,
                          cs.position, cs.velocity).path

\* A molotov that stopped on the floor where it hit.
C24_Witness ==
    /\ IsSome(outcome) /\ outcome.some.at = "computed"
    /\ active_type = "Molotov"
    /\ Hits = 1
    /\ outcome.some.steps < MaxSteps
    /\ trajectory.some[Len(trajectory.some)] = outcome.some.end_position

\* C26: an update that replaces map_mesh (a level change or a failed
\* load) and ends with a path present has simulated that path against the new
\* map_mesh: it went through the simulation, not through the cache, whatever
\* the throw state.
C26_PathAgainstCurrentMesh ==
    [][(/\ UpdateStep /\ outcome'.some.map.switched
        /\ map_mesh' # map_mesh
        /\ IsSome(trajectory'))
          => /\ outcome'.some.at = "computed"
             /\ trajectory'.some =
                   Simulate(map_mesh', active_type', outcome'.some.floor_z,
                            outcome'.some.state.some.position,
                            outcome'.some.state.some.velocity).path]_vars

\* The meshes update() can have simulated against.
KnownMeshes == {None, LoadMap("de_mirage"), LoadMap("de_nuke")}

Patched == IsSome(patch) /\ patch.some.result = "Ok(true)"

\* 0-based offsets in the file read: the JSON chunk header, the 4-byte
\* aligned end of the JSON chunk data, and in the output the end of the new
\* JSON chunk data.
ChunkHeaderOffset == patch.some.json_chunk_offset - 8
AlignedEnd ==
    patch.some.json_chunk_offset + ((patch.some.json_chunk_length + 3) \div 4) * 4
NewChunkEnd == ChunkHeaderOffset + 8 + ReadU32(file_bytes.some, ChunkHeaderOffset).some

\* C11: whatever bytes the file holds, patch_glb_json returns Ok(false),
\* Ok(true) or an error and never slices the buffer out of bounds, and load()
\* goes on to parse the buffer or to report a failure.
C11_NeverPanics ==
    IsSome(patch) =>
        /\ patch.some.result \in {"Ok(false)", "Ok(true)", "Err"}
        /\ load_stage \in {"patched", "parsed", "failed"}

\* C12: when the container is patched, the header apart from its
\* total-length field, the bytes between the header and the JSON chunk
\* header, and the bytes after the 4-byte aligned end of the old JSON chunk
\* are in the output unchanged and in the same order, around the new chunk.
C12_NoDataLoss ==
    Patched =>
        LET in == read_bytes.some
            out == file_bytes.some
        IN /\ Slice(out, 0, 8) = Slice(in, 0, 8)
           /\ Slice(out, 12, ChunkHeaderOffset) = Slice(in, 12, ChunkHeaderOffset)
           /\ NewChunkEnd <= Len(out)
           /\ Slice(out, NewChunkEnd, Len(out)) =
                 (IF AlignedEnd < Len(in) THEN Slice(in, AlignedEnd, Len(in)) ELSE <<>>)

\* A patched file with a chunk before the JSON chunk, padding after the JSON
\* text that the declared length leaves out, and a chunk after it.
C12_Witness ==
    /\ Patched
    /\ ChunkHeaderOffset > 12
    /\ patch.some.json_chunk_length % 4 # 0
    /\ AlignedEnd < Len(read_bytes.some)

\* The new JSON chunk of a patched file is well formed: its length field is
\* the length of the padded text written after it, a multiple of 4, and the
\* text is a document with "nodes" at the top level.
NewChunkConsistent ==
    LET out == file_bytes.some
        new_len == ReadU32(out, ChunkHeaderOffset).some
    IN /\ new_len = Len(patch.some.new_json_bytes)
       /\ new_len % 4 = 0
       /\ ReadU32(out, ChunkHeaderOffset + 4) = Some(JSON_CHUNK)
       /\ Slice(out, ChunkHeaderOffset + 8, NewChunkEnd) = patch.some.new_json_bytes
       /\ \E doc \in {FromSlice(Slice(out, ChunkHeaderOffset + 8, NewChunkEnd))} :
             IsSome(doc) /\ IsSome(Get(doc.some, NodesKey))

\* new chunk size - old chunk size, both with their 8-byte headers.
SizeDifference ==
    (8 + ReadU32(file_bytes.some, ChunkHeaderOffset).some)
        - (8 + ((patch.some.json_chunk_length + 3) \div 4) * 4)

StepOf(c) == calls'[c] # calls[c]

\* The joint at hand of call c is left with `matrix` by the step.
JointGets(c, matrix) ==
    /\ calls'[c].pc # "panicked"
    /\ JointOf(c) < Len(calls'[c].joint_matrices)
    /\ calls'[c].joint_matrices[JointOf(c) + 1] = matrix

\* The pelvis transform, else the root transform, else the identity.
PelvisRootOrIdentity(bone_transforms) ==
    IF "pelvis" \in DOMAIN bone_transforms THEN bone_transforms["pelvis"]
    ELSE IF "root" \in DOMAIN bone_transforms THEN bone_transforms["root"]
    ELSE Identity4

\* The steps of the render calls keep to the locking discipline: a call that
\* finds the lock held leaves the set alone and goes on to the assignment; the
\* set only grows, by a name it does not hold, under the lock.
LockDiscipline(c) ==
    /\ (StepOf(c) /\ calls[c].pc = "joint" /\ lock_holder \notin {0, c}
          /\ BoneOf(c) \notin DOMAIN calls[c].bone_transforms)
          => (calls'[c].pc = "assign" /\ UNCHANGED missing_bones_logged)
    /\ (StepOf(c) /\ missing_bones_logged' # missing_bones_logged)
          => /\ lock_holder = c
             /\ BoneOf(c) \notin missing_bones_logged
             /\ missing_bones_logged' = missing_bones_logged \cup {BoneOf(c)}

\* C18: the missing-bone set never blocks a render call.  A call that
\* finds the lock held skips the recording, and every call that meets a
\* missing bone, with or without the lock, still assigns the fallback joint
\* matrix and finishes; a name is inserted only when the set does not hold
\* it, so it is recorded once and the set only grows.
C18_SetNeverBlocksRender ==
    [][\A c \in Calls :
          /\ LockDiscipline(c)
          /\ missing_bones_logged \subseteq missing_bones_logged'
          /\ \A name \in BoneNames : times_recorded'[name] <= 1
          /\ (StepOf(c) /\ calls[c].pc = "assign")
                => JointGets(c, MatMul(PelvisRootOrIdentity(calls[c].bone_transforms),
                                       InverseBind(model.some, JointOf(c))))
          /\ (StepOf(c) /\ calls[c].pc = "skin" /\ calls[c].skipped # {})
                => calls'[c].pc = "idle"]_vars

\* C19: every named joint a render call has walked has a well-defined
\* joint matrix: the bone's transform times the joint's inverse bind matrix
\* when bone_transforms has the bone, and otherwise the fallback (pelvis, else
\* root, else identity) times the joint's inverse bind matrix, never a zero
\* matrix; and no joint is left without its matrix.
C19_JointMatrixDefined ==
    \A c \in Calls :
        LET call == calls[c] IN
        calls[c].pc # "idle" \/ IsSome(calls[c].skinned) =>
            /\ \A k \in 1..(call.next - 1) :
                  LET j == model.some.order[k]
                      name == model.some.joint_map[j]
                  IN /\ j < Len(call.joint_matrices)
                     /\ j < Len(model.some.inverse_bind_matrices)
                     /\ call.joint_matrices[j + 1] # Zeros4
                     /\ call.joint_matrices[j + 1] =
                           MatMul(IF name \in DOMAIN call.bone_transforms
                                  THEN call.bone_transforms[name]
                                  ELSE PelvisRootOrIdentity(call.bone_transforms),
                                  model.some.inverse_bind_matrices[j + 1])
            /\ ~(call.pc = "panicked" /\ call.next <= Len(model.some.order))

\* C30: render never indexes out of range for a mesh that load accepts.  In
\* every render call under way the joint matrix array has one entry per
\* inverse bind matrix, every joint index of joint_map and every joint index
\* a vertex refers to with a positive weight is below its length, every
\* triangle index is below the number of skinned vertices, and the call has
\* not panicked.
C30_RenderIndexesInRange ==
    \A c \in Calls :
        calls[c].pc # "idle" =>
            LET mesh == model.some
                joint_matrices == calls[c].joint_matrices
            IN /\ Len(joint_matrices) = Len(mesh.inverse_bind_matrices)
               /\ \A joint_idx \in DOMAIN mesh.joint_map : joint_idx < Len(joint_matrices)
               /\ \A i \in 1..Len(mesh.vertices), k \in 1..4 :
                     mesh.vertices[i].weights[k] > 0
                        => mesh.vertices[i].joints[k] < Len(joint_matrices)
               /\ \A i \in 1..Len(mesh.indices) : mesh.indices[i] < Len(mesh.vertices)
               /\ calls[c].pc # "panicked"

\* ========================================================================
\* Properties of the joint names
\* ========================================================================
RecognizedPrefixes == {Mixamorig, ValveBiped, Bip01}
Aliases == UNION {AliasTable[k].aliases : k \in 1..Len(AliasTable)}
CanonicalOf(alias) ==
    AliasTable[CHOOSE k \in 1..Len(AliasTable) : alias \in AliasTable[k].aliases].canonical

\* C25: a joint name that is, in any letter case, one recognized prefix
\* (mixamorig:, valvebiped_, bip01_) followed by an entry of the alias table
\* is normalized to that entry's canonical name, and one that is a recognized
\* prefix followed by a name outside the table (and without a further
\* prefix) to that name in lower case, the prefix stripped.
C25_PrefixStrippedAliasMapped ==
    IsSome(joint_name) =>
        \A prefix \in RecognizedPrefixes :
            LET lower == ToLowercase(joint_name.some.raw)
                rest == StripPrefix(lower, prefix)
            IN (/\ IsSome(rest)
                /\ \A other \in RecognizedPrefixes : ~IsSome(StripPrefix(rest.some, other)))
                  => joint_name.some.normalized =
                        IF rest.some \in Aliases THEN CanonicalOf(rest.some)
                        ELSE Replace(Replace(rest.some, ".", "_"), " ", "_")

====
